---------------------------- MODULE Spec2Model ----------------------------
(***************************************************************************)
(* A model of Masker.js: MaskerValidator (required / date / email / time   *)
(* checks, date-time range comparison, error containers, the bulk          *)
(* triggerAllValidations pass) and Masker (binding of listeners).          *)
(*                                                                         *)
(* Text is modelled as a sequence of one-character strings, so that        *)
(* splitting, trimming and parseInt are computed as the code computes      *)
(* them.  A mask declaration is a sequence of tokens (the words of the     *)
(* masker attribute); String.includes on it is a contiguous match of       *)
(* tokens.  A message is a sequence of strings (its pieces, in order).     *)
(*                                                                         *)
(* A value the source binds with const and reads several times is the      *)
(* parameter of a helper operator here (ToDate and ParseDateText, ...).    *)
(***************************************************************************)
EXTENDS Integers, Sequences, FiniteSets, TLC

(***************************************************************************)
(* Characters and text                                                     *)
(***************************************************************************)
DigitSeq == <<"0", "1", "2", "3", "4", "5", "6", "7", "8", "9">>

IsDigit(c) == \E i \in 1..10 : DigitSeq[i] = c

DigitVal(c) == (CHOOSE i \in 1..10 : DigitSeq[i] = c) - 1

IsSpace(c) == c = " "

\* parseInt of something that is no number
NaN == -1000000

IsNaN(n) == n = NaN

\* the value null where a number of minutes is expected
NullTime == -1

\* the value null where a Date object is expected
NullDate == <<>>

\* the empty string
Empty == <<>>

RECURSIVE TrimStart(_)
TrimStart(s) ==
    IF s # <<>> /\ IsSpace(Head(s)) THEN TrimStart(Tail(s)) ELSE s

RECURSIVE TrimEnd(_)
TrimEnd(s) ==
    IF s # <<>> /\ IsSpace(s[Len(s)]) THEN TrimEnd(SubSeq(s, 1, Len(s) - 1)) ELSE s

\* String.prototype.trim
Trim(s) == TrimEnd(TrimStart(s))

RECURSIVE DigitPrefixLen(_)
DigitPrefixLen(s) ==
    IF s # <<>> /\ IsDigit(Head(s)) THEN 1 + DigitPrefixLen(Tail(s)) ELSE 0

RECURSIVE DigitsValue(_)
DigitsValue(s) ==
    IF s = <<>> THEN 0 ELSE 10 * DigitsValue(SubSeq(s, 1, Len(s) - 1)) + DigitVal(s[Len(s)])

\* the number the first n characters of u spell, NaN when n is 0
PrefixValue(u, n) == IF n = 0 THEN NaN ELSE DigitsValue(SubSeq(u, 1, n))

Signed(neg, n) == IF IsNaN(n) THEN NaN ELSE IF neg THEN 0 - n ELSE n

Unsigned(t) == IF t # <<>> /\ Head(t) \in {"-", "+"} THEN Tail(t) ELSE t

ParseDigits(u) == PrefixValue(u, DigitPrefixLen(u))

ParseSigned(t) == Signed(t # <<>> /\ Head(t) = "-", ParseDigits(Unsigned(t)))

\* parseInt(s, 10): leading white space, an optional sign, then the longest
\* prefix of digits; NaN when there is no digit
ParseInt(s) == ParseSigned(TrimStart(s))

\* s.split(/[^0-9]+/).filter(x => x): the maximal runs of digits of s, in order
RECURSIVE DigitRuns(_)
RECURSIVE TakeRun(_, _)
TakeRun(s, n) == <<SubSeq(s, 1, n)>> \o DigitRuns(SubSeq(s, n + 1, Len(s)))

DigitRuns(s) ==
    IF s = <<>> THEN <<>>
    ELSE IF IsDigit(Head(s)) THEN TakeRun(s, DigitPrefixLen(s))
    ELSE DigitRuns(Tail(s))

\* s.padStart(2, '0')
PadStart2(s) == IF Len(s) >= 2 THEN s ELSE IF Len(s) = 1 THEN <<"0">> \o s ELSE <<"0", "0">>

Shifted(r) == IF r = 0 THEN 0 ELSE r + 1

\* s.indexOf(c) + 1
RECURSIVE IndexOfChar(_, _)
IndexOfChar(s, c) ==
    IF s = <<>> THEN 0
    ELSE IF Head(s) = c THEN 1
    ELSE Shifted(IndexOfChar(Tail(s), c))

\* s.split(c)
RECURSIVE SplitOn(_, _)
RECURSIVE SplitAt(_, _, _)
SplitAt(s, c, i) ==
    IF i = 0 THEN <<s>>
    ELSE <<SubSeq(s, 1, i - 1)>> \o SplitOn(SubSeq(s, i + 1, Len(s)), c)

SplitOn(s, c) == SplitAt(s, c, IndexOfChar(s, c))

AllDigits(s, from, to) == \A i \in from..to : i <= Len(s) /\ IsDigit(s[i])

\* /^\d{4}-\d{2}-\d{2}$/
MatchesStrictIso(v) ==
    /\ Len(v) = 10
    /\ AllDigits(v, 1, 4) /\ v[5] = "-"
    /\ AllDigits(v, 6, 7) /\ v[8] = "-"
    /\ AllDigits(v, 9, 10)

\* /^(\d{4})[-\/](\d{2})[-\/](\d{2})/
MatchesIsoPrefix(v) ==
    /\ Len(v) >= 10
    /\ AllDigits(v, 1, 4) /\ v[5] \in {"-", "/"}
    /\ AllDigits(v, 6, 7) /\ v[8] \in {"-", "/"}
    /\ AllDigits(v, 9, 10)

(***************************************************************************)
(* Writing numbers, dates and times as text (the inputs of the model)      *)
(***************************************************************************)
Digit(n) == DigitSeq[n + 1]

Write2(n) == <<Digit((n \div 10) % 10), Digit(n % 10)>>

Write4(n) == <<Digit((n \div 1000) % 10), Digit((n \div 100) % 10), Digit((n \div 10) % 10), Digit(n % 10)>>

(***************************************************************************)
(* The JavaScript Date object, as far as the validator uses it: local      *)
(* calendar fields and the comparison of time values.  A Date is           *)
(* <<year, month 1..12, day, minutes since midnight>>.                     *)
(***************************************************************************)
\* const isLeap = (y % 4 === 0 && y % 100 !== 0) || (y % 400 === 0)
IsLeap(y) == (y % 4 = 0 /\ y % 100 # 0) \/ (y % 400 = 0)

\* const daysInMonth = [0, 31, 28, 31, 30, 31, 30, 31, 31, 30, 31, 30, 31]
DaysInMonthTable == <<31, 28, 31, 30, 31, 30, 31, 31, 30, 31, 30, 31>>

\* maxDays of validateDate and #toDate
MaxDays(y, m) == IF m = 2 /\ IsLeap(y) THEN 29 ELSE DaysInMonthTable[m]

\* a day past the end of the month rolls into the next month
RollOver(y, m, d, last) ==
    IF d <= last THEN <<y, m, d, 0>>
    ELSE IF m = 12 THEN <<y + 1, 1, d - last, 0>>
    ELSE <<y, m + 1, d - last, 0>>

NormalDate(y, m, d) == RollOver(y, m, d, MaxDays(y, m))

\* new Date(y, m - 1, d) for m in 1..12 and d in 1..31: a year 0..99 counts
\* from 1900
MkDate(y, m, d) == NormalDate(IF y >= 0 /\ y <= 99 THEN 1900 + y ELSE y, m, d)

\* days since 0000-03-01 of the proleptic Gregorian calendar, from the year and
\* the month counted from March
MarchDays(y2, m2, d) ==
    365 * y2 + (y2 \div 4) - (y2 \div 100) + (y2 \div 400) + ((153 * m2 + 2) \div 5) + d - 1

DayNumber(y, m, d) == MarchDays(IF m <= 2 THEN y - 1 ELSE y, IF m <= 2 THEN m + 9 ELSE m - 3, d)

\* Date.prototype.valueOf, in minutes of local time
TimeValue(dt) == DayNumber(dt[1], dt[2], dt[3]) * 1440 + dt[4]

\* d1 >= d2 on Date objects
DateNotBefore(d1, d2) == TimeValue(d1) >= TimeValue(d2)

\* d1 > d2 on Date objects
DateAfter(d1, d2) == TimeValue(d1) > TimeValue(d2)

\* d1.getDate() === d2.getDate(): the day of the month alone
SameDayOfMonth(d1, d2) == d1[3] = d2[3]

\* d1.toDateString() === d2.toDateString()
SameDateString(d1, d2) == d1[1] = d2[1] /\ d1[2] = d2[2] /\ d1[3] = d2[3]

\* dateObj.setHours(Math.floor(mins / 60), mins % 60, 0, 0)
SetHours(dt, mins) == <<dt[1], dt[2], dt[3], mins>>

(***************************************************************************)
(* Format Registry and mask declarations                                   *)
(***************************************************************************)
FmtMDY == <<"M", "D", "Y">>
FmtDMY == <<"D", "M", "Y">>
FmtYMD == <<"Y", "M", "D">>
FmtUSCIV == <<"U", "S", "-", "C", "I", "V">>
FmtUSMIL == <<"U", "S", "-", "M", "I", "L">>

PatMDY == <<"M", "M", "/", "D", "D", "/", "Y", "Y", "Y", "Y">>
PatDMY == <<"D", "D", "/", "M", "M", "/", "Y", "Y", "Y", "Y">>
PatYMD == <<"Y", "Y", "Y", "Y", "/", "M", "M", "/", "D", "D">>

\* const alias = { MDY: ..., DMY: ..., YMD: ..., 'US-CIV': ... }; alias[raw] || raw
ResolveFormat(raw) ==
    IF raw = FmtMDY \/ raw = FmtUSCIV THEN PatMDY
    ELSE IF raw = FmtDMY THEN PatDMY
    ELSE IF raw = FmtYMD THEN PatYMD
    ELSE raw

\* el.getAttribute('data-format') || 'MDY'
RawFormat(el) == IF el.format = Empty THEN FmtMDY ELSE el.format

\* fmt.startsWith(c)
FmtStartsWith(fmt, c) == fmt # <<>> /\ fmt[1] = c

\* el.getAttribute('masker') || ''
MaskerAttr(el) == IF el.hasMasker THEN el.masker ELSE <<>>

\* maskerAttr.includes(pat), pat one or more words separated by single spaces
Includes(mask, pat) ==
    \E i \in 1..(Len(mask) - Len(pat) + 1) : SubSeq(mask, i, i + Len(pat) - 1) = pat

\* maskerAttr.startsWith(word)
StartsWith(mask, word) == mask # <<>> /\ mask[1] = word

(***************************************************************************)
(* Value parsers                                                           *)
(***************************************************************************)
InRange(n, lo, hi) == n >= lo /\ n <= hi

\* the sanity check of the ISO fallback of #toDate
IsoAccepted(v) ==
    /\ MatchesIsoPrefix(v)
    /\ InRange(ParseInt(SubSeq(v, 6, 7)), 1, 12)
    /\ InRange(ParseInt(SubSeq(v, 9, 10)), 1, 31)

\* the checks of #toDate on the three numbers, then new Date(yy, mm - 1, dd)
CheckedDate(mm, dd, yy) ==
    IF IsNaN(mm) \/ IsNaN(dd) \/ IsNaN(yy) THEN NullDate
    ELSE IF mm < 1 \/ mm > 12 THEN NullDate
    ELSE IF dd < 1 \/ dd > 31 THEN NullDate
    ELSE IF dd > MaxDays(yy, mm) THEN NullDate
    ELSE MkDate(yy, mm, dd)

\* the place of the month, the day and the year among the three parts
MonthPart(fmt) == IF FmtStartsWith(fmt, "M") THEN 1 ELSE 2
DayPart(fmt) == IF FmtStartsWith(fmt, "M") THEN 2 ELSE IF FmtStartsWith(fmt, "D") THEN 1 ELSE 3
YearPart(fmt) == IF FmtStartsWith(fmt, "Y") THEN 1 ELSE 3

\* .map(n => parseInt(n, 10))
ParseAll(runs) == [i \in 1..Len(runs) |-> ParseInt(runs[i])]

\* the standard parsing logic of #toDate
ParseDateParts(parts, fmt) ==
    IF Len(parts) # 3 THEN NullDate
    ELSE IF ~(FmtStartsWith(fmt, "M") \/ FmtStartsWith(fmt, "D") \/ FmtStartsWith(fmt, "Y")) THEN NullDate
    ELSE CheckedDate(parts[MonthPart(fmt)], parts[DayPart(fmt)], parts[YearPart(fmt)])

\* #toDate on the trimmed value v
ParseDateText(v, fmt) ==
    IF IsoAccepted(v)
    THEN MkDate(ParseInt(SubSeq(v, 1, 4)), ParseInt(SubSeq(v, 6, 7)), ParseInt(SubSeq(v, 9, 10)))
    ELSE ParseDateParts(ParseAll(DigitRuns(v)), fmt)

\* MaskerValidator.#toDate
ToDate(el) ==
    IF el.value = Empty THEN NullDate
    ELSE ParseDateText(Trim(el.value), ResolveFormat(RawFormat(el)))

\* parts[i] of a split, parsed; a missing part is undefined, which is no number
PartInt(parts, i) == IF i <= Len(parts) THEN ParseInt(parts[i]) ELSE NaN

\* the NaN and range checks of #toTime, then hrs * 60 + mins
MinutesOf(hrs, mins) ==
    IF IsNaN(hrs) \/ IsNaN(mins) THEN NullTime
    ELSE IF hrs < 0 \/ hrs > 23 THEN NullTime
    ELSE IF mins < 0 \/ mins > 59 THEN NullTime
    ELSE hrs * 60 + mins

\* the minutes of a text time: those of the Minutes select when there is one
TextTime(el, parts) ==
    MinutesOf(PartInt(parts, 1), IF el.hasMinutes THEN ParseInt(el.minutes) ELSE PartInt(parts, 2))

NativeTime(parts) == MinutesOf(PartInt(parts, 1), PartInt(parts, 2))

\* MaskerValidator.#toTime
ToTime(el) ==
    IF el.type = "time"
    THEN IF el.value = Empty THEN NullTime ELSE NativeTime(SplitOn(el.value, ":"))
    ELSE IF el.value = Empty \/ IndexOfChar(el.value, ":") = 0 THEN NullTime
    ELSE TextTime(el, SplitOn(el.value, ":"))

DateTimeOf(dateObj, mins) ==
    IF dateObj = NullDate \/ mins = NullTime THEN NullDate ELSE SetHours(dateObj, mins)

\* MaskerValidator.#toDateTime
ToDateTime(de, te) == DateTimeOf(ToDate(de), ToTime(te))

(***************************************************************************)
(* Messages.  A validation function returns null or a message; a call on   *)
(* null (sd.getAttribute with sd null) throws a TypeError, which leaves    *)
(* every caller up to the one that catches it.                             *)
(***************************************************************************)
Null == <<>>

TypeError == <<"TypeError">>

Thrown(r) == r = TypeError

\* a string attribute as a message
Text(s) == <<s>>

\* if (error): null and the empty string are falsy
Truthy(r) == r # Null /\ r # Text("")

\* a || b on string attributes
OrElse(s, dflt) == IF s # "" THEN Text(s) ELSE dflt

\* a message if there is one, else what follows it in the function
FirstMessage(a, b) == IF a # Null THEN a ELSE b

RequiredDefault == Text("This field is required.")

\* span.textContent.trim() of a message: the declared messages of the model are
\* free of outer white space, except the one made of a single space
TrimMessage(m) == IF m = Text(" ") THEN Text("") ELSE m

(***************************************************************************)
(* State                                                                   *)
(***************************************************************************)
VARIABLES
    today,      \* the clock: today's local date <<year, month, day>>
    doc,        \* the fields of the document, in document order
    containers, \* the error containers (span.error-msg), in document order
    verdict,    \* what the last validation call returned (a message, Null, TypeError)
    parsed,     \* what the last #toDate, #toTime or _findErrorAnchor call returned
    report,     \* what the last triggerAllValidations call returned
    subject,    \* the field (index in doc) the last call of the validator was about, or 0
    applied     \* the operations applied since the document last changed

VARIABLES
    attached,   \* attached[i]: field i is connected to the document (el.isConnected)
    visible,    \* visible[i]: field i is rendered (Masker.#isVisible)
    maskBound,  \* maskBound[i]: el.dataset.maskBound === 'true'
    listeners,  \* listeners[i]: the listeners added to field i, in the order they were added
    observers,  \* Masker._observers: the records { target, descriptor } of the watchers
    mutations,  \* mutations[k]: the batches of added nodes watcher k has yet to be called with
    timers,     \* the delayed runs setTimeout holds, in the order they will fire
    lastEvent   \* what the listeners of the last dispatched event did

binderVars == <<attached, visible, maskBound, listeners, observers, mutations, timers, lastEvent>>

\* new Date().getFullYear()
NowY == today[1]

(***************************************************************************)
(* Single-field checks                                                     *)
(***************************************************************************)
\* isInvalid of validateRequired
IsInvalid(val, allowWhitespace) ==
    IF allowWhitespace THEN val = Empty ELSE val = Empty \/ Trim(val) = Empty

\* MaskerValidator.validateRequired
ValidateRequired(el) ==
    IF el.tagName # "select" /\ el.value = el.placeholder THEN OrElse(el.errMsg, RequiredDefault)
    ELSE IF IsInvalid(el.value, Includes(MaskerAttr(el), <<"white-space-okay">>))
         THEN OrElse(el.errMsg, RequiredDefault)
    ELSE Null

\* the year checks with ignore-max lifting the upper bound of 'ancient' as well
YearPolicyMaxLifted(mask, y, allowAnyYearDigits, ignoreMax) ==
    IF Includes(mask, <<"ancient", "future">>) THEN Null
    ELSE IF Includes(mask, <<"ancient">>) /\ ~ignoreMax /\ y > NowY THEN Text("Year cannot be in the future.")
    ELSE IF Includes(mask, <<"future">>) /\ y < NowY THEN Text("Year cannot be in the past.")
    ELSE IF Includes(mask, <<"2000">>) /\ y < 2000 THEN Text("Year cannot be before 2000.")
    ELSE IF Includes(mask, <<"2000">>) /\ ~ignoreMax /\ y > NowY
         THEN <<"Year must be between 2000 and ", ToString(NowY), ".">>
    ELSE IF Includes(mask, <<"1900">>) /\ y < 1900 THEN Text("Year cannot be before 1900.")
    ELSE IF Includes(mask, <<"1900">>) /\ ~ignoreMax /\ y > NowY
         THEN <<"Year must be between 1900 and ", ToString(NowY), ".">>
    ELSE IF /\ ~allowAnyYearDigits /\ ~Includes(mask, <<"ancient">>)
            /\ ~Includes(mask, <<"1900">>) /\ ~Includes(mask, <<"2000">>) /\ y < NowY
         THEN <<"Year cannot be before ", ToString(NowY), ".">>
    ELSE Null

\* step 3 of validateDate after the length check: the year policy of the mask
YearPolicy(mask, y, allowAnyYearDigits, ignoreMax) ==
    IF Includes(mask, <<"ancient", "future">>) THEN Null
    ELSE IF Includes(mask, <<"ancient">>) /\ y > NowY THEN Text("Year cannot be in the future.")
    ELSE IF Includes(mask, <<"future">>) /\ y < NowY THEN Text("Year cannot be in the past.")
    ELSE IF Includes(mask, <<"2000">>) /\ y < 2000 THEN Text("Year cannot be before 2000.")
    ELSE IF Includes(mask, <<"2000">>) /\ ~ignoreMax /\ y > NowY
         THEN <<"Year must be between 2000 and ", ToString(NowY), ".">>
    ELSE IF Includes(mask, <<"1900">>) /\ y < 1900 THEN Text("Year cannot be before 1900.")
    ELSE IF Includes(mask, <<"1900">>) /\ ~ignoreMax /\ y > NowY
         THEN <<"Year must be between 1900 and ", ToString(NowY), ".">>
    ELSE IF /\ ~allowAnyYearDigits /\ ~Includes(mask, <<"ancient">>)
            /\ ~Includes(mask, <<"1900">>) /\ ~Includes(mask, <<"2000">>) /\ y < NowY
         THEN <<"Year cannot be before ", ToString(NowY), ".">>
    ELSE Null

\* steps 4 and 5 of validateDate
MonthDayCheck(y, m, d) ==
    IF IsNaN(m) \/ m < 1 \/ m > 12 THEN Text("Month must be 01-12.")
    ELSE IF IsNaN(d) \/ d < 1 \/ d > 31 THEN Text("Day must be 01-31.")
    ELSE IF d > MaxDays(y, m)
         THEN <<"Invalid date: ", ToString(m), "/", ToString(d), " does not exist in year ", ToString(y), ".">>
    ELSE Null

\* validateDate with the month and the day checked before the year policy
ValidateNumbersMonthFirst(mask, y, m, d) ==
    IF IsNaN(y) THEN Text("Year is not valid.")
    ELSE FirstMessage(MonthDayCheck(y, m, d),
                      YearPolicy(mask, y, Includes(mask, <<"year-digits-any">>), Includes(mask, <<"ignore-max">>)))

\* validateDate from the parsed year on
ValidateNumbers(mask, y, m, d) ==
    IF IsNaN(y) THEN Text("Year is not valid.")
    ELSE FirstMessage(YearPolicy(mask, y, Includes(mask, <<"year-digits-any">>), Includes(mask, <<"ignore-max">>)),
                      MonthDayCheck(y, m, d))

\* validateDate from the three raw parts on
ValidateRawParts(mask, allowAnyYearDigits, rawY, rawM, rawD) ==
    IF ~(IF allowAnyYearDigits THEN Len(rawY) > 0 ELSE Len(rawY) = 4)
    THEN IF allowAnyYearDigits THEN Text("Year is required.") ELSE Text("Year must be 4 digits.")
    ELSE ValidateNumbers(mask, ParseInt(rawY), ParseInt(PadStart2(rawM)), ParseInt(PadStart2(rawD)))

\* step 2 of validateDate: split, and the parts in the order of the format
ValidateParts(mask, fmt, parts) ==
    IF Len(parts) # 3 THEN Text("Date is not valid.")
    ELSE ValidateRawParts(mask, Includes(mask, <<"year-digits-any">>),
                          parts[IF FmtStartsWith(fmt, "Y") THEN 1 ELSE 3],
                          parts[IF FmtStartsWith(fmt, "Y") \/ FmtStartsWith(fmt, "D") THEN 2 ELSE 1],
                          parts[IF FmtStartsWith(fmt, "Y") THEN 3 ELSE IF FmtStartsWith(fmt, "D") THEN 1 ELSE 2])

\* userDate > cutoffDate, cutoffDate being today at midnight plus maxDaysOut days
PastCutoff(el, userDate, maxDaysOut) ==
    IF userDate = NullDate \/ IsNaN(maxDaysOut) THEN Null
    ELSE IF DayNumber(userDate[1], userDate[2], userDate[3]) > DayNumber(today[1], today[2], today[3]) + maxDaysOut
         THEN IF el.maxDaysErrMsg # "" THEN Text(el.maxDaysErrMsg)
              ELSE <<"Date cannot be more than ", ToString(maxDaysOut), " days in the future.">>
    ELSE Null

\* step 1 of validateDate
MaxDaysOutCheck(el) ==
    IF el.maxDaysOut = Empty THEN Null ELSE PastCutoff(el, ToDate(el), ParseInt(el.maxDaysOut))

\* MaskerValidator.validateDate
ValidateDate(el) ==
    IF el.value = Empty \/ el.value = el.placeholder THEN Null
    ELSE IF MatchesStrictIso(el.value) THEN Null
    ELSE IF RawFormat(el) = FmtUSMIL THEN Null
    ELSE FirstMessage(MaxDaysOutCheck(el),
                      ValidateParts(MaskerAttr(el), ResolveFormat(RawFormat(el)), DigitRuns(el.value)))

\* the pattern with [^\s@]* for the host: nothing is needed between @ and the dot
EmailShapeNoHost(s, at) ==
    /\ at > 1
    /\ \A i \in 1..Len(s) : ~IsSpace(s[i]) /\ (s[i] = "@" => i = at)
    /\ \E p \in (at + 1)..(Len(s) - 1) : s[p] = "."

\* /^[^\s@]+@[^\s@]+\.[^\s@]+$/ on s whose first @ is at position at
EmailShape(s, at) ==
    /\ at > 1
    /\ \A i \in 1..Len(s) : ~IsSpace(s[i]) /\ (s[i] = "@" => i = at)
    /\ \E p \in (at + 2)..(Len(s) - 1) : s[p] = "."

MatchesEmail(s) == EmailShape(s, IndexOfChar(s, "@"))

\* MaskerValidator.validateEmail
ValidateEmail(el) ==
    IF el.value = Empty THEN Null
    ELSE IF ~MatchesEmail(el.value) THEN OrElse(el.errMsg, Text("Please enter a valid email address."))
    ELSE Null

\* MaskerValidator.validateTime
ValidateTime(el) ==
    IF el.value # Empty /\ ToTime(el) = NullTime THEN Text("Please enter a valid time (HH:MM).")
    ELSE Null

(***************************************************************************)
(* The document: the fields in document order.  doc[i] is a record of the  *)
(* field's attributes and properties; index 0 stands for null (no element  *)
(* found).                                                                 *)
(***************************************************************************)
\* the first of a set of indexes in document order, 0 when there is none
FirstOf(S) == IF S = {} THEN 0 ELSE CHOOSE i \in S : \A j \in S : i <= j

\* document.querySelector(`[masker*="<role>"][data-pair="${pairName}"]`)
PairMember(d, role, pairName) ==
    FirstOf({i \in 1..Len(d) : d[i].hasMasker /\ Includes(d[i].masker, role) /\ d[i].pair = pairName})

\* document.getElementById(id)
GetElementById(d, id) ==
    IF id = "" THEN 0 ELSE FirstOf({i \in 1..Len(d) : d[i].id = id})

(***************************************************************************)
(* Range comparison                                                        *)
(***************************************************************************)
\* the default message of validateDateRange
RangeStartDefault(startEl, endEl) ==
    <<IF startEl.title # "" THEN startEl.title ELSE "Start date",
      " cannot be set after ",
      IF endEl.title # "" THEN endEl.title ELSE "End date">>

\* validateDateRange once both dates are parsed
CompareDates(startEl, endEl, d1, d2) ==
    IF d1 = NullDate \/ d2 = NullDate THEN Null
    ELSE IF DateAfter(d1, d2) THEN OrElse(startEl.errMsgRangeStart, RangeStartDefault(startEl, endEl))
    ELSE Null

\* MaskerValidator.validateDateRange
ValidateDateRange(startEl, endEl) ==
    IF startEl.value = Empty \/ endEl.value = Empty THEN Null
    ELSE CompareDates(startEl, endEl, ToDate(startEl), ToDate(endEl))

\* sd && sd.value && sd.value !== sd.placeholder
HasValue(d, i) == i # 0 /\ d[i].value # Empty /\ d[i].value # d[i].placeholder

\* st ? this.#toTime(st) : null
TimeOf(d, i) == IF i # 0 THEN ToTime(d[i]) ELSE NullTime

\* getMsg of validateDateTimeRange: it reads the attribute of sd, then of ed,
\* and throws when the one it reads is null
GetMsg(d, sd, ed, defaultMsg) ==
    IF sd = 0 THEN TypeError
    ELSE IF d[sd].errMsgRange # "" THEN Text(d[sd].errMsgRange)
    ELSE IF ed = 0 THEN TypeError
    ELSE OrElse(d[ed].errMsgRange, defaultMsg)

\* the differing-days comparison of validateDateTimeRange
CompareInstants(d, sd, ed, dt1, dt2) ==
    IF dt1 = NullDate \/ dt2 = NullDate \/ DateAfter(dt1, dt2)
    THEN GetMsg(d, sd, ed, Text("End date must be on or after the start date."))
    ELSE Null

\* the branch of validateDateTimeRange for four values
CompareFull(d, sd, st, ed, et, d1, d2, t1, t2) ==
    IF d1 = NullDate \/ d2 = NullDate THEN Null
    ELSE IF SameDateString(d1, d2)
         THEN IF t1 >= t2 THEN GetMsg(d, sd, ed, Text("End time must be after start time on the same day."))
              ELSE Null
    ELSE CompareInstants(d, sd, ed, ToDateTime(d[sd], d[st]), ToDateTime(d[ed], d[et]))

\* validateDateTimeRange once the four has-flags and the two times are known
CompareRoles(d, sd, st, ed, et, hasSD, hasED, t1, t2) ==
    IF hasSD /\ hasED /\ t1 = NullTime /\ t2 = NullTime THEN ValidateDateRange(d[sd], d[ed])
    ELSE IF t1 # NullTime /\ t2 # NullTime /\ ~hasSD /\ ~hasED /\ t1 >= t2
         THEN GetMsg(d, sd, ed, Text("End time must be after start time."))
    ELSE IF hasSD /\ t1 # NullTime /\ hasED /\ t2 # NullTime
         THEN CompareFull(d, sd, st, ed, et, ToDate(d[sd]), ToDate(d[ed]), t1, t2)
    ELSE Null

\* MaskerValidator.validateDateTimeRange; sd, st, ed, et are indexes, 0 for null
ValidateDateTimeRange(d, sd, st, ed, et) ==
    CompareRoles(d, sd, st, ed, et, HasValue(d, sd), HasValue(d, ed), TimeOf(d, st), TimeOf(d, et))

(***************************************************************************)
(* validate: the prioritized sequence of checks                            *)
(***************************************************************************)
\* checkRequired of validate
CheckRequired(el) ==
    IF el.required \/ Includes(MaskerAttr(el), <<"required">>) THEN ValidateRequired(el) ELSE Null

\* checkFormat of validate
CheckFormat(el) ==
    IF el.value # Empty /\ el.value # el.placeholder
    THEN IF StartsWith(MaskerAttr(el), "date") THEN ValidateDate(el)
         ELSE IF StartsWith(MaskerAttr(el), "email") THEN ValidateEmail(el)
         ELSE IF StartsWith(MaskerAttr(el), "time") THEN ValidateTime(el)
         ELSE Null
    ELSE Null

\* if ((sd && ed) || (st && et)) return this.validateDateTimeRange(sd, st, ed, et)
CompareGroup(d, sd, st, ed, et) ==
    IF (sd # 0 /\ ed # 0) \/ (st # 0 /\ et # 0) THEN ValidateDateTimeRange(d, sd, st, ed, et) ELSE Null

\* checkComplex of validate
CheckComplex(d, i) ==
    IF d[i].pair # ""
    THEN CompareGroup(d, PairMember(d, <<"date", "begin">>, d[i].pair),
                         PairMember(d, <<"time", "begin">>, d[i].pair),
                         PairMember(d, <<"date", "end">>, d[i].pair),
                         PairMember(d, <<"time", "end">>, d[i].pair))
    ELSE Null

\* { 'complex': 1, 'format': 2, 'required': 3 }: the range check first
ComplexFirst == <<<<"complex", 1>>, <<"format", 2>>, <<"required", 3>>>>

\* priority = { 'required': 1, 'format': 2, 'complex': 3 }, as the pairs
\* <<key, number>> in the order the keys were written
DefaultPriority == <<<<"required", 1>>, <<"format", 2>>, <<"complex", 3>>>>

\* one step of the stable sort of the keys by their numbers
RECURSIVE InsertByNumber(_, _)
InsertByNumber(sorted, p) ==
    IF sorted = <<>> THEN <<p>>
    ELSE IF Head(sorted)[2] <= p[2] THEN <<Head(sorted)>> \o InsertByNumber(Tail(sorted), p)
    ELSE <<p>> \o sorted

\* Object.keys(priority).sort((a, b) => priority[a] - priority[b])
RECURSIVE SortedChecks(_)
SortedChecks(priority) ==
    IF priority = <<>> THEN <<>>
    ELSE InsertByNumber(SortedChecks(SubSeq(priority, 1, Len(priority) - 1)), priority[Len(priority)])

\* if (checkFunctions[priFunction]) checkFunctions[priFunction](): a key that
\* checkFunctions does not have is skipped, unless the object inherits a
\* function of that name: checkFunctions.toString() is "[object Object]"
RunCheck(d, i, name) ==
    IF name = "required" THEN CheckRequired(d[i])
    ELSE IF name = "format" THEN CheckFormat(d[i])
    ELSE IF name = "complex" THEN CheckComplex(d, i)
    ELSE IF name = "toString" THEN Text("[object Object]")
    ELSE Null

\* the loop of validate over the sorted checks: the first truthy error, or a throw
RECURSIVE FirstError(_, _, _)
RECURSIVE ErrorOrNext(_, _, _, _)
ErrorOrNext(error, d, i, rest) ==
    IF Thrown(error) \/ Truthy(error) THEN error ELSE FirstError(d, i, rest)

FirstError(d, i, checks) ==
    IF checks = <<>> THEN Null
    ELSE ErrorOrNext(RunCheck(d, i, Head(checks)[1]), d, i, Tail(checks))

\* MaskerValidator.validate(el, priority)
ValidateWith(d, i, priority) == FirstError(d, i, SortedChecks(priority))

\* MaskerValidator.validate(el)
Validate(d, i) == ValidateWith(d, i, DefaultPriority)

(***************************************************************************)
(* Error presentation.  Each error container records the id it is linked   *)
(* to (data-error-for), its text, its style.display and the node it was    *)
(* inserted after: a field <<i, 0>> or the Minutes select that follows     *)
(* field i, <<i, 1>>.                                                      *)
(***************************************************************************)
\* the time field itself, whether a Minutes select follows it or not
SelfOnly(d, i) == <<i, 0>>

\* MaskerValidator.findNextSelectWithPartialId(el, 'Minutes') || el
MinutesOrSelf(d, i) == IF d[i].hasMinutes THEN <<i, 1>> ELSE <<i, 0>>

\* timePartner of _findErrorAnchor, and what is returned for it
PartnerAnchor(d, endEl, timePartner) ==
    IF timePartner # 0 THEN MinutesOrSelf(d, timePartner) ELSE <<endEl, 0>>

\* step 2 of _findErrorAnchor
PairAnchor(d, i, endEl) ==
    IF d[i].pair # "" /\ endEl # 0
    THEN PartnerAnchor(d, endEl, IF Includes(d[endEl].masker, <<"time">>) THEN endEl
                                 ELSE PairMember(d, <<"time", "end">>, d[i].pair))
    ELSE <<i, 0>>

\* step 1 of _findErrorAnchor
CustomAnchor(d, i, customAnchor) ==
    IF d[i].errorAnchor = "self" THEN <<i, 0>>
    ELSE IF d[i].errorAnchor # "" /\ customAnchor # 0 THEN <<customAnchor, 0>>
    ELSE PairAnchor(d, i, PairMember(d, <<"end">>, d[i].pair))

\* MaskerValidator._findErrorAnchor
FindErrorAnchor(d, i) == CustomAnchor(d, i, GetElementById(d, d[i].errorAnchor))

\* getOrCreateErrorContainer without its lookup: no container is ever found
ContainerNotFound(cs, id) == 0

\* document.querySelector(`[data-error-for="${id}"]`): index of the first container
ContainerFor(cs, id) == FirstOf({k \in 1..Len(cs) : cs[k].errorFor = id})

\* a before b in document order
NodeBefore(a, b) == a[1] < b[1] \/ (a[1] = b[1] /\ a[2] < b[2])

InsertAt(cs, n, c) == SubSeq(cs, 1, n) \o <<c>> \o SubSeq(cs, n + 1, Len(cs))

\* anchor.insertAdjacentElement('afterend', container): the new span follows the
\* anchor at once, so it precedes the spans inserted after that anchor earlier
InsertAfter(cs, anchor, c) ==
    InsertAt(cs, Cardinality({k \in 1..Len(cs) : NodeBefore(cs[k].anchor, anchor)}), c)

NewContainer(id, text, display, anchor) ==
    [errorFor |-> id, text |-> text, display |-> display, anchor |-> anchor]

\* getOrCreateErrorContainer for an element with an id, then c.textContent and
\* c.style.display
WriteContainer(cs, id, k, anchor, text, display) ==
    IF k # 0 THEN [cs EXCEPT ![k].text = text, ![k].display = display]
    ELSE InsertAfter(cs, anchor, NewContainer(id, text, display, anchor))

\* the two assignments of displayError / clearError on a container looked up
\* or created whether the element has an id or not
SetContainerOfAny(d, cs, i, text, display) ==
    WriteContainer(cs, d[i].id, ContainerFor(cs, d[i].id), FindErrorAnchor(d, i), text, display)

\* MaskerValidator.getOrCreateErrorContainer, then the two assignments of
\* displayError / clearError
SetContainer(d, cs, i, text, display) ==
    IF d[i].id = "" THEN cs
    ELSE WriteContainer(cs, d[i].id, ContainerFor(cs, d[i].id), FindErrorAnchor(d, i), text, display)

\* MaskerValidator.displayError
DisplayError(d, cs, i, msg) == SetContainer(d, cs, i, msg, "inline")

\* MaskerValidator.clearError
ClearError(d, cs, i) == SetContainer(d, cs, i, Text(""), "none")

(***************************************************************************)
(* triggerAllValidations                                                   *)
(***************************************************************************)
\* document.querySelectorAll('[masker]'), in document order
RECURSIVE MaskerFields(_, _)
MaskerFields(d, from) ==
    IF from > Len(d) THEN <<>>
    ELSE IF d[from].hasMasker THEN <<from>> \o MaskerFields(d, from + 1)
    ELSE MaskerFields(d, from + 1)

\* the forEach of step 1 over the fields left: the containers when the loop
\* ends, and whether a validate call threw (the loop stops there)
RECURSIVE ValidationPass(_, _, _)
RECURSIVE ShowOrClear(_, _, _, _)
ShowOrClear(d, cs, fields, errorMessage) ==
    IF Thrown(errorMessage) THEN [containers |-> cs, threw |-> TRUE]
    ELSE ValidationPass(d, IF Truthy(errorMessage) THEN DisplayError(d, cs, Head(fields), errorMessage)
                           ELSE ClearError(d, cs, Head(fields)),
                        Tail(fields))

ValidationPass(d, cs, fields) ==
    IF fields = <<>> THEN [containers |-> cs, threw |-> FALSE]
    ELSE ShowOrClear(d, cs, fields, Validate(d, Head(fields)))

\* inputElement ? (inputElement.title || inputElement.name) : 'Field'
TitleOf(d, i) == IF i = 0 THEN "Field" ELSE IF d[i].title # "" THEN d[i].title ELSE d[i].name

\* one entry of formErrors
FormError(d, span) ==
    [id |-> span.errorFor, title |-> TitleOf(d, GetElementById(d, span.errorFor)), message |-> TrimMessage(span.text)]

\* step 2: the report scraped from the error spans, in document order
RECURSIVE ScrapeErrors(_, _)
ScrapeErrors(d, cs) ==
    IF cs = <<>> THEN <<>>
    ELSE (IF Head(cs).display # "none" /\ TrimMessage(Head(cs).text) # Text("")
          THEN <<FormError(d, Head(cs))>> ELSE <<>>) \o ScrapeErrors(d, Tail(cs))

\* a text input as document.createElement('input') leaves it, every attribute absent
BaseField ==
    [id |-> "", name |-> "", title |-> "", tagName |-> "input", type |-> "text",
     hasMasker |-> FALSE, masker |-> <<>>, required |-> FALSE,
     value |-> Empty, placeholder |-> Empty, format |-> Empty, pair |-> "",
     errMsg |-> "", errMsgRangeStart |-> "", errMsgRange |-> "",
     maxDaysOut |-> Empty, maxDaysErrMsg |-> "",
     hasMinutes |-> FALSE, minutes |-> Empty, errorAnchor |-> "",
     singleLineErrors |-> FALSE, within |-> "", maxLength |-> -1, min |-> Empty, max |-> Empty]

NoReport == [list |-> <<>>, threw |-> FALSE]

\* no event was dispatched yet
\* again: the fields a binding pass handed to #bindElement when they were bound already
NoEvent == [type |-> "", target |-> 0, ran |-> <<>>, scheduled |-> 0, again |-> {}]

\* the page before Masker.init ran: every field connected and rendered, nothing
\* bound, no watcher, no timer
IdleBinder ==
    /\ attached = [i \in 1..Len(doc) |-> TRUE]
    /\ visible = [i \in 1..Len(doc) |-> TRUE]
    /\ maskBound = [i \in 1..Len(doc) |-> FALSE]
    /\ listeners = [i \in 1..Len(doc) |-> <<>>]
    /\ observers = <<>>
    /\ mutations = <<>>
    /\ timers = <<>>
    /\ lastEvent = NoEvent

vars == <<today, doc, containers, verdict, parsed, report, subject, applied, binderVars>>

\* the user (or a script) changes the value of field i
SetValue(i, v) == doc' = [doc EXCEPT ![i].value = v]

\* a date written the way the resolved pattern of a format code spells it
WriteAs(fmt, y, m, d) ==
    IF FmtStartsWith(fmt, "Y") THEN Write4(y) \o <<"/">> \o Write2(m) \o <<"/">> \o Write2(d)
    ELSE IF FmtStartsWith(fmt, "D") THEN Write2(d) \o <<"/">> \o Write2(m) \o <<"/">> \o Write4(y)
    ELSE Write2(m) \o <<"/">> \o Write2(d) \o <<"/">> \o Write4(y)

WriteDate(raw, y, m, d) == WriteAs(ResolveFormat(raw), y, m, d)

\* a time of day written HH:MM
WriteTime(mins) == Write2(mins \div 60) \o <<":">> \o Write2(mins % 60)

(***************************************************************************)
(* Masker: the mask appliers                                               *)
(***************************************************************************)
\* value.replace(/\D/g, '')
OnlyDigits(s) == SelectSeq(s, IsDigit)

\* the loop of #applyDateMask over what is left of the format and the digits
RECURSIVE FillDate(_, _)
FillDate(fmt, c) ==
    IF fmt = <<>> \/ c = <<>> THEN <<>>
    ELSE IF Head(fmt) \in {"M", "D", "Y"} THEN <<Head(c)>> \o FillDate(Tail(fmt), Tail(c))
    ELSE <<Head(fmt)>> \o FillDate(Tail(fmt), c)

\* Masker.#applyDateMask: the value it leaves in the field
ApplyDateMask(value, fmt) == FillDate(fmt, OnlyDigits(value))

\* the loop of #applyPatternMask without its test on the digits: it runs to the
\* end of the format and leaves the slots it has no digit for as they are
RECURSIVE FillWhole(_, _, _)
FillWhole(fmt, digits, ph) ==
    IF fmt = <<>> THEN <<>>
    ELSE IF Head(fmt) = ph /\ digits # <<>> THEN <<Head(digits)>> \o FillWhole(Tail(fmt), Tail(digits), ph)
    ELSE <<Head(fmt)>> \o FillWhole(Tail(fmt), digits, ph)

\* the loop of #applyPatternMask over what is left of the format and the digits
RECURSIVE FillPattern(_, _, _)
FillPattern(fmt, digits, ph) ==
    IF fmt = <<>> \/ digits = <<>> THEN <<>>
    ELSE IF Head(fmt) = ph THEN <<Head(digits)>> \o FillPattern(Tail(fmt), Tail(digits), ph)
    ELSE <<Head(fmt)>> \o FillPattern(Tail(fmt), digits, ph)

\* Masker.#applyPatternMask: the value it leaves in the field
ApplyPatternMask(value, fmt, ph) == FillPattern(fmt, OnlyDigits(value), ph)

\* fmt.replace(/[MDY]/g, '_')
DateTemplate(fmt) == [k \in 1..Len(fmt) |-> IF fmt[k] \in {"M", "D", "Y"} THEN "_" ELSE fmt[k]]

\* formats.US of #setupPhoneMask: '(000) 000-0000'
PhoneUS == <<"(", "0", "0", "0", ")", " ", "0", "0", "0", "-", "0", "0", "0", "0">>

\* formats.DSN: '000-000-0000'
PhoneDSN == <<"0", "0", "0", "-", "0", "0", "0", "-", "0", "0", "0", "0">>

\* formats[el.getAttribute('data-format') || 'US'] || el.getAttribute('data-format'),
\* for the codes US and DSN and for a format written out
PhoneFormat(el) ==
    IF el.format = Empty \/ el.format = <<"U", "S">> THEN PhoneUS
    ELSE IF el.format = <<"D", "S", "N">> THEN PhoneDSN
    ELSE el.format

\* fmt.replace(/0/g, '_')
PhoneTemplate(fmt) == [k \in 1..Len(fmt) |-> IF fmt[k] = "0" THEN "_" ELSE fmt[k]]

\* 'YYYY MMM DD' of #setupMilDateMask
MilTemplate == <<"Y", "Y", "Y", "Y", " ", "M", "M", "M", " ", "D", "D">>

\* '___@___' of #setupEmailMask
EmailTemplate == <<"_", "_", "_", "@", "_", "_", "_">>

(***************************************************************************)
(* Masker.#bindElement.  A listener is <<event type, what it runs>>.      *)
(***************************************************************************)
\* tokenizedArr.includes(token)
HasToken(mask, token) == \E k \in 1..Len(mask) : mask[k] = token

\* the listeners #setupDateMask adds (those of #setupMilDateMask for US-MIL),
\* then the change listener of #bindElement
DateListeners(el) ==
    (IF RawFormat(el) = FmtUSMIL
     THEN <<<<"input", "mildate">>, <<"focus", "mildate">>, <<"keydown", "mildate">>, <<"blur", "mildate">>>>
     ELSE <<<<"focus", "date">>, <<"input", "date">>, <<"keydown", "date">>, <<"blur", "date">>>>) \o <<<<"change", "handleValidation">>>>

\* the listeners the setup function of the mask type adds to the field itself
MaskListeners(el) ==
    IF HasToken(el.masker, "char-count") THEN <<<<"keydown", "limitInput">>, <<"input", "charCount">>>>
    ELSE IF HasToken(el.masker, "number") THEN <<<<"input", "number">>>>
    ELSE IF HasToken(el.masker, "phone") THEN <<<<"focus", "phone">>, <<"input", "phone">>, <<"keydown", "phone">>, <<"blur", "phone">>>>
    ELSE IF HasToken(el.masker, "email") THEN <<<<"focus", "email">>, <<"keydown", "email">>, <<"input", "email">>, <<"blur", "email">>>>
    ELSE IF HasToken(el.masker, "time") THEN (IF el.type = "time" THEN <<<<"blur", "time">>>> ELSE <<>>)
    ELSE IF HasToken(el.masker, "date") THEN DateListeners(el)
    ELSE <<>>

\* Masker.#setupFilterSpecialCharactersMask
SpecialListeners(el) == IF HasToken(el.masker, "special") THEN <<<<"input", "special">>>> ELSE <<>>

\* Masker.#addRequiredValidation
RequiredListeners(el) ==
    IF el.required \/ Includes(MaskerAttr(el), <<"required">>) THEN <<<<"blur", "required">>, <<"input", "required">>>> ELSE <<>>

\* everything #bindElement adds to a field, in order
AddedListeners(el) ==
    <<<<"blur", "handleValidation">>>>
    \o (IF MaskerAttr(el) = <<>> THEN <<>> ELSE MaskListeners(el) \o SpecialListeners(el))
    \o RequiredListeners(el)

\* the template a setup function writes into a field whose mask has 'visible'
VisibleTemplate(el) ==
    IF HasToken(el.masker, "phone") THEN PhoneTemplate(PhoneFormat(el))
    ELSE IF RawFormat(el) = FmtUSMIL THEN MilTemplate
    ELSE DateTemplate(ResolveFormat(RawFormat(el)))

\* if (visible) el.value = ph, in #setupDateMask, #setupMilDateMask and #setupPhoneMask
WithTemplate(el) ==
    IF /\ Includes(MaskerAttr(el), <<"visible">>)
       /\ ~HasToken(el.masker, "char-count") /\ ~HasToken(el.masker, "number")
       /\ \/ HasToken(el.masker, "phone")
          \/ (~HasToken(el.masker, "email") /\ ~HasToken(el.masker, "time") /\ HasToken(el.masker, "date"))
    THEN [el EXCEPT !.value = VisibleTemplate(el)]
    ELSE el

\* #bindElement without its first guard: a field already bound is bound again
BindElementAgain(b, i, includeHidden) ==
    IF ~attached[i] THEN b
    ELSE IF ~includeHidden /\ ~visible[i] THEN b
    ELSE [doc |-> [b.doc EXCEPT ![i] = WithTemplate(b.doc[i])],
          maskBound |-> [b.maskBound EXCEPT ![i] = TRUE],
          listeners |-> [b.listeners EXCEPT ![i] = b.listeners[i] \o AddedListeners(b.doc[i])]]

\* a binder state b = [doc, maskBound, listeners] with field i bound
Bound(b, i) ==
    [doc |-> [b.doc EXCEPT ![i] = WithTemplate(b.doc[i])],
     maskBound |-> [b.maskBound EXCEPT ![i] = TRUE],
     listeners |-> [b.listeners EXCEPT ![i] = b.listeners[i] \o AddedListeners(b.doc[i])]]

\* Masker.#bindElement(el, includeHidden) on field i
BindElement(b, i, includeHidden) ==
    IF b.maskBound[i] THEN b
    ELSE IF ~attached[i] THEN b
    ELSE IF ~includeHidden /\ ~visible[i] THEN b
    ELSE Bound(b, i)

\* nodes.forEach(el => this.#bindElement(el, includeHidden))
RECURSIVE BindAll(_, _, _)
BindAll(b, nodes, includeHidden) ==
    IF nodes = <<>> THEN b
    ELSE BindAll(BindElement(b, Head(nodes), includeHidden), Tail(nodes), includeHidden)

(***************************************************************************)
(* Masker.init and the watchers.  The page has one container element,      *)
(* id "c"; a field is inside it (within = "c") or directly under the body. *)
(* A selector is the default one, '[masker]', '[required]', '#c', or '['   *)
(* which is no selector: querySelectorAll and matches throw on it.         *)
(***************************************************************************)
\* let selector = '[masker], [required]'
SelDefault == "[masker], [required]"

\* el.matches(selector)
Matches(el, selector) ==
    IF selector = SelDefault THEN el.hasMasker \/ el.required
    ELSE IF selector = "[masker]" THEN el.hasMasker
    ELSE IF selector = "[required]" THEN el.required
    ELSE FALSE

\* querySelectorAll(selector) and matches(selector) throw a SyntaxError
IsInvalidSelector(selector) == selector = "["

\* selector.startsWith('#') || selector.startsWith('.')
IsScope(selector) == selector = "#c"

\* document.querySelector(selector) for a scope selector: the id of the element, "" for null
ScopeElement(selector) == IF selector = "#c" THEN "c" ELSE ""

\* the normalisation of an object argument { selector, includeHidden, observe,
\* container } of init; an option left out is "" (FALSE for the flags), and
\* "null" is a selector given as null: arg.selector || selector takes the
\* default for it, arg.selector !== undefined holds for it
Normalize(arg) ==
    [selector |-> IF arg.selector \in {"", "null"} \/ IsScope(arg.selector) THEN SelDefault ELSE arg.selector,
     includeHidden |-> arg.includeHidden,
     observe |-> arg.observe,
     container |-> IF IsScope(arg.selector) /\ ScopeElement(arg.selector) # "" THEN ScopeElement(arg.selector)
                   ELSE ScopeElement(arg.container),
     explicit |-> ~IsScope(arg.selector) /\ arg.selector # "" /\ arg.selector # SelDefault]

\* the fields a querySelectorAll under a root finds, from field number from on
RECURSIVE QueryFrom(_, _, _, _)
QueryFrom(d, root, selector, from) ==
    IF from > Len(d) THEN <<>>
    ELSE (IF attached[from] /\ (root = "" \/ d[from].within = root) /\ Matches(d[from], selector)
          THEN <<from>> ELSE <<>>) \o QueryFrom(d, root, selector, from + 1)

\* the nodes init binds: those inside the container when there is one and the
\* selector is the default one, else those of the whole document; when the
\* query throws, those of the whole document for the default selector
Nodes(d, n) ==
    IF IsInvalidSelector(n.selector) THEN QueryFrom(d, "", SelDefault, 1)
    ELSE QueryFrom(d, IF n.container # "" /\ n.selector = SelDefault THEN n.container ELSE "", n.selector, 1)

\* observeTarget and descriptor of init
WatcherOf(n) ==
    [target |-> IF n.container # "" THEN n.container ELSE "body",
     selector |-> n.selector, includeHidden |-> n.includeHidden, explicit |-> n.explicit]

\* the loop of init that looks for an existing record
Registered(obs, w) == \E k \in 1..Len(obs) : obs[k] = w

\* the test a watcher makes on an added node before it calls #bindElement;
\* a throw of matches is caught and nothing is bound
Offered(w, el) ==
    IF w.explicit /\ w.selector # SelDefault THEN ~IsInvalidSelector(w.selector) /\ Matches(el, w.selector)
    ELSE el.hasMasker \/ el.required

\* the callback of a watcher on one added node
OnAdded(b, w, node) ==
    IF Offered(w, b.doc[node]) THEN BindElement(b, node, w.includeHidden) ELSE b

\* the callback of a watcher on a batch of added nodes
RECURSIVE OnBatch(_, _, _)
OnBatch(b, w, nodes) ==
    IF nodes = <<>> THEN b ELSE OnBatch(OnAdded(b, w, Head(nodes)), w, Tail(nodes))

\* a teardown that takes every watcher out of the registry, whatever it watches
KeptNone(obs, target, from) == <<>>

\* the watchers left by disconnectObserverFor(target), and their batches
RECURSIVE KeptIndexes(_, _, _)
KeptIndexes(obs, target, from) ==
    IF from > Len(obs) THEN <<>>
    ELSE (IF obs[from].target = target THEN <<>> ELSE <<from>>) \o KeptIndexes(obs, target, from + 1)

Pick(seq, idx) == [k \in 1..Len(idx) |-> seq[idx[k]]]

(***************************************************************************)
(* The listeners.  A dispatch works on st = [doc, containers, timers, ran]:*)
(* the fields, the error containers, the timers, and the listeners that    *)
(* ran so far.  A timer is <<what it runs, field, text>>.                  *)
(***************************************************************************)
LowerCase == <<"a", "b", "c", "d", "e", "f", "g", "h", "i", "j", "k", "l", "m",
               "n", "o", "p", "q", "r", "s", "t", "u", "v", "w", "x", "y", "z">>
UpperCase == <<"A", "B", "C", "D", "E", "F", "G", "H", "I", "J", "K", "L", "M",
               "N", "O", "P", "Q", "R", "S", "T", "U", "V", "W", "X", "Y", "Z">>

IsLetter(c) == \E k \in 1..26 : LowerCase[k] = c \/ UpperCase[k] = c

\* c.toUpperCase()
ToUpper(c) == IF \E k \in 1..26 : LowerCase[k] = c THEN UpperCase[CHOOSE k \in 1..26 : LowerCase[k] = c] ELSE c

IsAlnum(c) == IsLetter(c) \/ IsDigit(c)

\* [a-zA-Z0-9-._@]
IsEmailChar(c) == IsAlnum(c) \/ c \in {"-", ".", "_", "@"}

\* [a-zA-Z0-9_-], no data-allow-chars being declared
IsPlainChar(c) == IsAlnum(c) \/ c \in {"_", "-"}

\* s.slice(0, n)
Slice(s, n) ==
    IF n >= 0 THEN SubSeq(s, 1, IF n < Len(s) THEN n ELSE Len(s))
    ELSE SubSeq(s, 1, IF Len(s) + n > 0 THEN Len(s) + n ELSE 0)

\* out of #applyMilDateMask for the cleaned text c
MilGroups(c) ==
    SubSeq(c, 1, IF Len(c) < 4 THEN Len(c) ELSE 4)
    \o (IF Len(c) > 4 THEN <<" ">> \o SubSeq(c, 5, IF Len(c) < 7 THEN Len(c) ELSE 7) ELSE <<>>)
    \o (IF Len(c) > 7 THEN <<" ">> \o SubSeq(c, 8, IF Len(c) < 9 THEN Len(c) ELSE 9) ELSE <<>>)

UpperAll(s) == [k \in 1..Len(s) |-> ToUpper(s[k])]

\* Masker.#applyMilDateMask: the value it leaves in the field
ApplyMilDateMask(value) == MilGroups(UpperAll(SelectSeq(value, IsAlnum)))

\* Masker.#applyEmailMask: the value it leaves in the field
ApplyEmailMask(value) == SelectSeq(value, IsEmailChar)

\* String(n) for an integer
RECURSIVE WriteNat(_)
WriteNat(n) == IF n < 10 THEN <<Digit(n)>> ELSE WriteNat(n \div 10) \o <<Digit(n % 10)>>

WriteInt(n) == IF n < 0 THEN <<"-">> \o WriteNat(0 - n) ELSE WriteNat(n)

SetVal(st, i, v) == [st EXCEPT !.doc[i].value = v]

Ran(st, l) == [st EXCEPT !.ran = Append(@, l)]

\* setTimeout(run, ..)
Scheduled(st, timer) == [st EXCEPT !.timers = Append(@, timer)]

\* MaskerValidator.clearError(el) / displayError(el, msg) from a listener
Cleared(st, i) == [st EXCEPT !.containers = ClearError(st.doc, st.containers, i)]

Shown(st, i, msg) == [st EXCEPT !.containers = DisplayError(st.doc, st.containers, i, msg)]

\* the id of the Minutes select that follows a time field
MinutesId(id) == IF id = "st" THEN "stMinutes" ELSE IF id = "et" THEN "etMinutes" ELSE "Minutes"

\* clearError on the Minutes select that follows field j: the select is its own anchor
ClearedSelect(st, j) ==
    [st EXCEPT !.containers = WriteContainer(st.containers, MinutesId(st.doc[j].id),
                                             ContainerFor(st.containers, MinutesId(st.doc[j].id)),
                                             <<j, 1>>, Text(""), "none")]

\* clearError(anchor) for an anchor node
ClearedNode(st, node) == IF node[2] = 0 THEN Cleared(st, node[1]) ELSE ClearedSelect(st, node[1])

\* what a blur listener does with the message validate returned
ShowVerdict(st, i, errorMessage, anchor, alsoAnchor) ==
    IF Thrown(errorMessage) THEN st
    ELSE IF Truthy(errorMessage) THEN Shown(st, i, errorMessage)
    ELSE IF alsoAnchor /\ anchor # <<i, 0>> THEN ClearedNode(Cleared(st, i), anchor)
    ELSE Cleared(st, i)

ValidateAndShow(st, i, alsoAnchor) ==
    ShowVerdict(st, i, Validate(st.doc, i), FindErrorAnchor(st.doc, i), alsoAnchor)

\* the template the blur listener of a mask type empties the field of
BlurTemplate(el, what) ==
    IF what = "date" THEN DateTemplate(ResolveFormat(RawFormat(el)))
    ELSE IF what = "mildate" THEN MilTemplate
    ELSE IF what = "phone" THEN PhoneTemplate(PhoneFormat(el))
    ELSE EmailTemplate

\* the first statement of the blur listeners of the masks
Untemplated(st, i, what) ==
    IF /\ what # "time"
       /\ st.doc[i].value = BlurTemplate(st.doc[i], what)
       /\ (what = "email" \/ ~Includes(MaskerAttr(st.doc[i]), <<"visible">>))
    THEN SetVal(st, i, Empty)
    ELSE st

\* the blur listener #setupDateMask, #setupMilDateMask, #setupPhoneMask,
\* #setupEmailMask or #setupTimeField adds.  The one of #setupDateMask clears
\* the anchor as well; the one of #setupMilDateMask reads this._findErrorAnchor,
\* which Masker does not have, and so ends once it has cleared the field's error.
BlurMask(st, i, what) == ValidateAndShow(Untemplated(st, i, what), i, what = "date")

\* the focus listeners
FocusMask(st, i, what) ==
    IF st.doc[i].value = Empty THEN SetVal(st, i, BlurTemplate(st.doc[i], what)) ELSE st

\* the keydown listeners of the masks
KeydownMask(st, i, what, key) ==
    IF /\ st.doc[i].value = BlurTemplate(st.doc[i], what)
       /\ (IF what = "email" THEN key \notin {"Tab", "Shift", "Control", "Alt"} ELSE key = "Backspace")
    THEN SetVal(st, i, Empty)
    ELSE st

\* the clamp of the input listener of #setupNumberMask, for the value just set
Clamp(st, i, currValNum, minNum, maxNum) ==
    IF st.doc[i].value = Empty THEN st
    ELSE IF st.doc[i].min # Empty /\ ~IsNaN(minNum) /\ currValNum < minNum
         THEN Scheduled(st, <<"clamp", i, WriteInt(minNum)>>)
    ELSE IF st.doc[i].max # Empty /\ ~IsNaN(maxNum) /\ currValNum > maxNum
         THEN Scheduled(st, <<"clamp", i, WriteInt(maxNum)>>)
    ELSE st

NumberSet(st, i) == Clamp(st, i, ParseInt(st.doc[i].value), ParseInt(st.doc[i].min), ParseInt(st.doc[i].max))

\* the input listeners of the masks
InputMask(st, i, what) ==
    IF what = "date"
    THEN Cleared(SetVal(st, i, ApplyDateMask(st.doc[i].value, ResolveFormat(RawFormat(st.doc[i])))), i)
    ELSE IF what = "mildate" THEN SetVal(st, i, ApplyMilDateMask(st.doc[i].value))
    ELSE IF what = "phone" THEN SetVal(st, i, ApplyPatternMask(st.doc[i].value, PhoneFormat(st.doc[i]), "0"))
    ELSE IF what = "email" THEN SetVal(st, i, ApplyEmailMask(st.doc[i].value))
    ELSE IF what = "special" THEN SetVal(st, i, SelectSeq(st.doc[i].value, IsPlainChar))
    ELSE IF what = "number"
         THEN NumberSet(SetVal(st, i, Slice(OnlyDigits(st.doc[i].value), st.doc[i].maxLength)), i)
    ELSE IF what = "required" THEN Cleared(st, i)
    ELSE st

\* one listener of field i run on an event; key is the key of a keydown
RunListener(st, i, l, key) ==
    IF l[2] = "handleValidation" THEN Scheduled(st, <<"validate", i, Empty>>)
    ELSE IF l[1] = "input" THEN InputMask(st, i, l[2])
    ELSE IF l[1] = "focus" THEN FocusMask(st, i, l[2])
    ELSE IF l[1] = "keydown" /\ l[2] # "limitInput" THEN KeydownMask(st, i, l[2], key)
    ELSE IF l[1] = "blur" /\ l[2] # "required" THEN BlurMask(st, i, l[2])
    ELSE st

\* dispatchEvent: the listeners of the event's type run in the order they were added
RECURSIVE Dispatch(_, _, _, _, _)
Dispatch(st, i, type, ls, key) ==
    IF ls = <<>> THEN st
    ELSE IF Head(ls)[1] = type
         THEN Dispatch(Ran(RunListener(st, i, Head(ls), key), Head(ls)), i, type, Tail(ls), key)
    ELSE Dispatch(st, i, type, Tail(ls), key)

(***************************************************************************)
(* Masker.#handleValidation: the delayed run                               *)
(***************************************************************************)
\* the forEach of #clearAllErrorsForPair over the members of the group left
RECURSIVE ClearedPair(_, _, _)
ClearedMember(st, p) ==
    IF Includes(MaskerAttr(st.doc[p]), <<"time">>) /\ st.doc[p].hasMinutes
    THEN ClearedSelect(Cleared(st, p), p)
    ELSE Cleared(st, p)

ClearedPair(st, pairName, from) ==
    IF from > Len(st.doc) THEN st
    ELSE IF st.doc[from].pair = pairName THEN ClearedPair(ClearedMember(st, from), pairName, from + 1)
    ELSE ClearedPair(st, pairName, from + 1)

\* Masker.#clearAllErrorsForPair
ClearAllErrorsForPair(st, i) ==
    IF st.doc[i].singleLineErrors \/ st.doc[i].pair = "" THEN Cleared(st, i)
    ELSE ClearedPair(Cleared(st, i), st.doc[i].pair, 1)

\* the re-validation of a partner in single-line-errors mode
Synced(st, p, pError) ==
    IF Truthy(pError) THEN Shown(st, p, pError) ELSE Cleared(st, p)

\* the forEach of the sync check of #handleValidation; a throw of validate ends it
RECURSIVE SyncPartners(_, _, _)
RECURSIVE SyncPartner(_, _, _, _)
SyncPartner(st, i, p, pError) ==
    IF Thrown(pError) THEN st ELSE SyncPartners(Synced(st, p, pError), i, p + 1)

SyncPartners(st, i, from) ==
    IF from > Len(st.doc) THEN st
    ELSE IF from # i /\ st.doc[from].pair = st.doc[i].pair THEN SyncPartner(st, i, from, Validate(st.doc, from))
    ELSE SyncPartners(st, i, from + 1)

\* the callback of #handleValidation from the validate call on
ValidatedLate(st, i, errorMessage) ==
    IF Thrown(errorMessage) THEN st
    ELSE IF st.doc[i].singleLineErrors /\ st.doc[i].pair # ""
         THEN SyncPartners(IF Truthy(errorMessage) THEN Shown(st, i, errorMessage) ELSE st, i, 1)
    ELSE IF Truthy(errorMessage) THEN Shown(st, i, errorMessage)
    ELSE st

\* the callback #handleValidation hands to setTimeout
HandleValidation(st, i) == ValidatedLate(ClearAllErrorsForPair(st, i), i, Validate(st.doc, i))

\* the callback the input listener of #setupNumberMask hands to setTimeout
ClampNow(st, i, text) == SetVal(st, i, text)

(***************************************************************************)
(* SpecDate: one date field; the value parsers and validateDate are        *)
(* applied to what the user typed.                                         *)
(***************************************************************************)
Years == {50, 1899, 1900, 2000, 2023, 2024}
Months == {1, 2, 4, 12}
Days == {1, 28, 29, 30, 31}
Todays == {<<2024, 6, 15>>, <<2023, 12, 31>>}
DateFormats == {FmtMDY, FmtDMY, FmtYMD}
DateMasks ==
    {<<"date">>, <<"date", "ancient">>, <<"date", "1900">>, <<"date", "ancient", "future">>,
     <<"date", "future">>, <<"date", "future", "ancient">>, <<"date", "2000">>,
     <<"date", "2000", "ignore-max">>, <<"date", "1900", "ignore-max">>,
     <<"date", "ancient", "ignore-max">>, <<"date", "ignore-max">>, <<"date", "year-digits-any">>}

DateTexts(raw) == {WriteDate(raw, y, m, d) : y \in Years, m \in Months, d \in Days}

InitDate ==
    /\ today \in Todays
    /\ \E mask \in DateMasks, raw \in DateFormats :
           doc = <<[BaseField EXCEPT !.id = "d", !.hasMasker = TRUE, !.masker = mask, !.format = raw]>>
    /\ containers = <<>>
    /\ verdict = Null
    /\ parsed = NullDate
    /\ report = NoReport
    /\ subject = 0
    /\ applied = {}
    /\ IdleBinder

TypeDate ==
    /\ \E v \in DateTexts(doc[1].format) : SetValue(1, v)
    /\ verdict' = Null
    /\ parsed' = NullDate
    /\ applied' = {}
    /\ UNCHANGED <<today, containers, report, subject, binderVars>>

ApplyValidateDate ==
    /\ "validateDate" \notin applied
    /\ verdict' = ValidateDate(doc[1])
    /\ applied' = applied \cup {"validateDate"}
    /\ UNCHANGED <<today, doc, containers, parsed, report, subject, binderVars>>

ApplyToDate ==
    /\ "toDate" \notin applied
    /\ parsed' = ToDate(doc[1])
    /\ applied' = applied \cup {"toDate"}
    /\ UNCHANGED <<today, doc, containers, verdict, report, subject, binderVars>>

NextDate == TypeDate \/ ApplyValidateDate \/ ApplyToDate

SpecDate == InitDate /\ [][NextDate]_vars

(***************************************************************************)
(* SpecEntry: one date field with any format code, year policy and         *)
(* max-days-out limit, holding a text a user or a script put there: dates  *)
(* that do not exist, texts with too few groups or a short year, and       *)
(* machine-generated values with hyphens, slashes and a time after them.   *)
(***************************************************************************)
EntryTexts ==
    {<<"1", "2", "/", "3", "1", "/", "2", "0", "2", "4">>,
     <<"1", "3", "/", "3", "2", "/", "2", "4">>,
     <<"1", "3", "/", "0", "1">>,
     <<"0", "2", "/", "3", "0", "/", "1", "8", "9", "9">>,
     <<"1", "3", "/", "3", "2", "/", "2", "0", "2", "4">>,
     <<"1", "2", "/", "3", "1", "/", "2", "0", "3", "0">>,
     <<"0", "2", "/", "3", "0", "/", "2", "0", "3", "0">>,
     <<"2", "0", "3", "0", "/", "0", "2", "/", "3", "0">>,
     <<"2", "0", "2", "4", "-", "1", "3", "-", "4", "5">>,
     <<"2", "0", "2", "4", "-", "0", "2", "-", "3", "0">>,
     <<"2", "0", "2", "4", "-", "0", "1", "-", "1", "5", "T", "1", "2", ":", "0", "0">>,
     <<"2", "0", "2", "4", "/", "0", "1", "/", "1", "5">>,
     <<"1", "/", "1", "/", "2", "0", "3", "0">>,
     <<"2", "0", "2", "4", "-", "0", "1", "-", "1", "5">>,
     <<"2", "0", "2", "3", "/", "0", "2", "/", "2", "9">>}
EntryMasks ==
    {<<"date">>, <<"date", "ancient">>, <<"date", "1900">>, <<"date", "future">>, <<"date", "year-digits-any">>}
EntryLimits == {Empty, <<"3", "0">>}
EntryLimitMessages == {"", "Too far ahead"}

\* <input id="d" masker=".." data-format=".." data-max-days-out=".." data-max-days-errmsg="..">
EntryField(mask, raw, limit, msg) ==
    [BaseField EXCEPT !.id = "d", !.hasMasker = TRUE, !.masker = mask, !.format = raw,
                      !.maxDaysOut = limit, !.maxDaysErrMsg = msg]

InitEntry ==
    /\ today \in Todays
    /\ \E mask \in EntryMasks, raw \in DateFormats, limit \in EntryLimits, msg \in EntryLimitMessages :
           doc = <<EntryField(mask, raw, limit, msg)>>
    /\ containers = <<>>
    /\ verdict = Null
    /\ parsed = NullDate
    /\ report = NoReport
    /\ subject = 0
    /\ applied = {}
    /\ IdleBinder

\* a text is put into the field
TypeEntry ==
    /\ \E v \in EntryTexts : SetValue(1, v)
    /\ verdict' = Null
    /\ parsed' = NullDate
    /\ applied' = {}
    /\ UNCHANGED <<today, containers, report, subject, binderVars>>

NextEntry == TypeEntry \/ ApplyValidateDate \/ ApplyToDate

SpecEntry == InitEntry /\ [][NextEntry]_vars

(***************************************************************************)
(* SpecTime: one time field, a native time input or a text input, with or  *)
(* without a Minutes select next to it, holding a text a user or a script  *)
(* put there; #toTime and validateTime are applied to it.                  *)
(***************************************************************************)
TimeTexts ==
    {Empty,
     <<"0", "9", ":", "3", "0">>,
     <<"9", ":", "5">>,
     <<"2", "3", ":", "5", "9">>,
     <<"0", "0", ":", "0", "0">>,
     <<"2", "4", ":", "0", "0">>,
     <<"1", "2", ":", "6", "0">>,
     <<"1", "2", "3", "0">>,
     <<"1", "2", ":">>,
     <<":", "3", "0">>,
     <<"a", "b", ":", "c", "d">>,
     <<"1", "2", ":", "3", "0", "p", "m">>,
     <<"1", "a", ":", "3", "0">>,
     <<"1", "2", ":", "3", "0", ":", "4", "5">>,
     <<"-", "1", ":", "3", "0">>,
     <<"1", "2">>}
TimeInputTypes == {"text", "time"}
MinuteChoices == {<<"0", "0">>, <<"4", "5">>, <<"7", "5">>, Empty}

\* <input id="t" masker="time" type="..">, and the select whose id contains
\* "Minutes" in the same cell when there is one
TimeField(type, withSelect, minutes) ==
    [BaseField EXCEPT !.id = "t", !.hasMasker = TRUE, !.masker = <<"time">>, !.type = type,
                      !.hasMinutes = withSelect, !.minutes = minutes]

InitTime ==
    /\ today = <<2024, 6, 15>>
    /\ \E type \in TimeInputTypes, withSelect \in BOOLEAN :
       \E minutes \in (IF withSelect THEN MinuteChoices ELSE {Empty}) :
           doc = <<TimeField(type, withSelect, minutes)>>
    /\ containers = <<>>
    /\ verdict = Null
    /\ parsed = NullTime
    /\ report = NoReport
    /\ subject = 0
    /\ applied = {}
    /\ IdleBinder

\* a text is put into the field
TypeTime ==
    /\ \E v \in TimeTexts : SetValue(1, v)
    /\ verdict' = Null
    /\ parsed' = NullTime
    /\ applied' = {}
    /\ UNCHANGED <<today, containers, report, subject, binderVars>>

\* the user picks the minutes in the select
PickMinutes ==
    /\ doc[1].hasMinutes
    /\ \E minutes \in MinuteChoices : doc' = [doc EXCEPT ![1].minutes = minutes]
    /\ verdict' = Null
    /\ parsed' = NullTime
    /\ applied' = {}
    /\ UNCHANGED <<today, containers, report, subject, binderVars>>

ApplyToTime ==
    /\ "toTime" \notin applied
    /\ parsed' = ToTime(doc[1])
    /\ applied' = applied \cup {"toTime"}
    /\ UNCHANGED <<today, doc, containers, verdict, report, subject, binderVars>>

ApplyValidateTime ==
    /\ "validateTime" \notin applied
    /\ verdict' = ValidateTime(doc[1])
    /\ applied' = applied \cup {"validateTime"}
    /\ UNCHANGED <<today, doc, containers, parsed, report, subject, binderVars>>

NextTime == TypeTime \/ PickMinutes \/ ApplyToTime \/ ApplyValidateTime

SpecTime == InitTime /\ [][NextTime]_vars

(***************************************************************************)
(* SpecRange: one pairing group "p" with any of its four members (begin    *)
(* date, begin time, end date, end time, in document order); range         *)
(* comparison and validate are applied to what the fields hold.            *)
(***************************************************************************)
RangeDates == {<<2024, 12, 31>>, <<2025, 1, 1>>, <<2025, 2, 1>>, <<2025, 3, 1>>}
RangeTimes == {540, 840}
BadTime == <<"2", "5", ":", "0", "0">>
RangeToday == <<2025, 1, 1>>

RangeDateTexts == {Empty} \cup {WriteDate(FmtMDY, t[1], t[2], t[3]) : t \in RangeDates}
RangeTimeTexts == {Empty, BadTime} \cup {WriteTime(t) : t \in RangeTimes}

\* <input id=.. masker="date begin" data-pair="p" ..> and the three others
BeginDate(v, titled, rs, rg) ==
    [BaseField EXCEPT !.id = "sd", !.hasMasker = TRUE, !.masker = <<"date", "begin">>, !.pair = "p",
                      !.value = v, !.title = IF titled THEN "Start" ELSE "",
                      !.errMsgRangeStart = rs, !.errMsgRange = IF rg = "begin" THEN "Custom range" ELSE ""]

BeginTime(v) ==
    [BaseField EXCEPT !.id = "st", !.hasMasker = TRUE, !.masker = <<"time", "begin">>, !.pair = "p", !.value = v]

EndDate(v, titled, rg) ==
    [BaseField EXCEPT !.id = "ed", !.hasMasker = TRUE, !.masker = <<"date", "end">>, !.pair = "p",
                      !.value = v, !.title = IF titled THEN "End" ELSE "",
                      !.errMsgRange = IF rg = "end" THEN "Custom end range" ELSE ""]

EndTime(v) ==
    [BaseField EXCEPT !.id = "et", !.hasMasker = TRUE, !.masker = <<"time", "end">>, !.pair = "p", !.value = v]

Optional(present, el) == IF present THEN <<el>> ELSE <<>>

InitRange ==
    /\ today = RangeToday
    /\ \E present \in [1..4 -> BOOLEAN], titled \in BOOLEAN :
       \E rs \in (IF present[1] THEN {"", "Custom range start"} ELSE {""}),
          rg \in {"none"} \cup (IF present[1] THEN {"begin"} ELSE {}) \cup (IF present[3] THEN {"end"} ELSE {}),
          v1 \in (IF present[1] THEN RangeDateTexts ELSE {Empty}),
          v2 \in (IF present[2] THEN RangeTimeTexts ELSE {Empty}),
          v3 \in (IF present[3] THEN RangeDateTexts ELSE {Empty}),
          v4 \in (IF present[4] THEN RangeTimeTexts ELSE {Empty}) :
             doc = Optional(present[1], BeginDate(v1, titled, rs, rg))
                    \o Optional(present[2], BeginTime(v2))
                    \o Optional(present[3], EndDate(v3, titled, rg))
                    \o Optional(present[4], EndTime(v4))
    /\ containers = <<>>
    /\ verdict = Null
    /\ parsed = NullDate
    /\ report = NoReport
    /\ subject = 0
    /\ applied = {}
    /\ IdleBinder

\* the four role members of group "p", 0 for a member that is not there
SD == PairMember(doc, <<"date", "begin">>, "p")
ST == PairMember(doc, <<"time", "begin">>, "p")
ED == PairMember(doc, <<"date", "end">>, "p")
ET == PairMember(doc, <<"time", "end">>, "p")

\* the call validateDateTimeRange(sd, st, ed, et) that checkComplex makes
CompareRange ==
    /\ (SD # 0 /\ ED # 0) \/ (ST # 0 /\ ET # 0)
    /\ verdict' = ValidateDateTimeRange(doc, SD, ST, ED, ET)
    /\ subject' = 0
    /\ applied' = {"range"}
    /\ UNCHANGED <<today, doc, containers, parsed, report, binderVars>>

\* MaskerValidator.validate(el) on a member of the group
ValidateMember ==
    /\ \E i \in 1..Len(doc) :
           /\ verdict' = Validate(doc, i)
           /\ subject' = i
    /\ applied' = {"validate"}
    /\ UNCHANGED <<today, doc, containers, parsed, report, binderVars>>

NextRange == CompareRange \/ ValidateMember

SpecRange == InitRange /\ [][NextRange]_vars

(***************************************************************************)
(* SpecValidate: one candidate field of any mask type, flagged required by *)
(* the attribute, by the mask token, or not at all, alone or with members  *)
(* of the pairing group "p" after it; validate is applied to it, with the  *)
(* default priority or with one the caller passes.                         *)
(***************************************************************************)
CandidateMasks ==
    {<<>>, <<"date">>, <<"date", "ancient">>, <<"date", "begin">>, <<"email">>, <<"time", "begin">>, <<"phone">>}
RequiredBy == {"attribute", "token", "none"}
CandidateFormats == {Empty, FmtYMD, FmtUSMIL}
RequiredMessages == {"", "Custom required"}
Placeholders == {Empty, PatMDY}
Priorities ==
    {DefaultPriority, ComplexFirst, <<<<"format", 1>>, <<"required", 1>>>>, <<<<"format", 1>>>>,
     <<<<"custom", 1>>, <<"required", 2>>>>, <<<<"toString", 1>>, <<"required", 2>>>>}

\* <input id="f" masker=".. [required]" [required] data-format=.. data-errMsg=.. placeholder=..>
Candidate(mask, by, fmt, msg, ph) ==
    [BaseField EXCEPT !.id = "f", !.name = "f",
                      !.hasMasker = (mask # <<>> \/ by = "token"),
                      !.masker = mask \o (IF by = "token" THEN <<"required">> ELSE <<>>),
                      !.required = (by = "attribute"),
                      !.tagName = IF mask = <<>> THEN "select" ELSE "input",
                      !.format = fmt, !.errMsg = msg, !.placeholder = ph,
                      !.pair = IF Includes(mask, <<"begin">>) THEN "p" ELSE ""]

\* the other members of group "p": none, its two times (14:00 to 09:00), or
\* its end date and its two times
Partners ==
    {<<>>,
     <<BeginTime(WriteTime(840)), EndTime(WriteTime(540))>>,
     <<EndDate(WriteDate(FmtMDY, 2025, 2, 1), FALSE, "end"), BeginTime(WriteTime(840)), EndTime(WriteTime(540))>>}

CandidateTexts ==
    {Empty, <<" ">>, PatMDY, WriteDate(FmtMDY, 2025, 3, 1), WriteDate(FmtMDY, 2025, 2, 30),
     WriteTime(540), <<"a", "@", "b", ".", "c">>}

InitValidate ==
    /\ today = RangeToday
    /\ \E mask \in CandidateMasks, by \in RequiredBy, fmt \in CandidateFormats,
          msg \in RequiredMessages, ph \in Placeholders, partners \in Partners :
           doc = <<Candidate(mask, by, fmt, msg, ph)>> \o partners
    /\ containers = <<>>
    /\ verdict = Null
    /\ parsed = NullDate
    /\ report = NoReport
    /\ subject = 0
    /\ applied = {}
    /\ IdleBinder

\* the user types into the candidate field
TypeCandidate ==
    /\ \E v \in CandidateTexts : v # doc[1].value /\ SetValue(1, v)
    /\ verdict' = Null
    /\ subject' = 0
    /\ applied' = {}
    /\ UNCHANGED <<today, containers, parsed, report, binderVars>>

\* MaskerValidator.validate(el), on what was typed
ValidateField ==
    /\ applied = {}
    /\ \E i \in 1..Len(doc) :
           /\ verdict' = Validate(doc, i)
           /\ subject' = i
    /\ applied' = {"validate"}
    /\ UNCHANGED <<today, doc, containers, parsed, report, binderVars>>

\* MaskerValidator.validate(el, priority), on what was typed
ValidatePrioritized ==
    /\ applied = {}
    /\ \E i \in 1..Len(doc), priority \in Priorities :
           /\ verdict' = ValidateWith(doc, i, priority)
           /\ subject' = i
           /\ applied' = {"validate", ToString(priority)}
    /\ UNCHANGED <<today, doc, containers, parsed, report, binderVars>>

NextValidate == TypeCandidate \/ ValidateField \/ ValidatePrioritized

SpecValidate == InitValidate /\ [][NextValidate]_vars

(***************************************************************************)
(* SpecForm: a form made of the begin date and the end date of group "p"   *)
(* and one more field, which carries a mask declaration, the required      *)
(* attribute, or both, and may lack an id.  The user fills the fields in   *)
(* and the page calls triggerAllValidations.                               *)
(***************************************************************************)
FormDates == {<<2025, 2, 1>>, <<2025, 3, 1>>}
FormDateTexts == {Empty} \cup {WriteDate(FmtMDY, t[1], t[2], t[3]) : t \in FormDates}
FormTexts == {Empty, <<"a", "@", "b", ".", "c">>, <<"a", "@", "b">>}
FormMasks == {<<>>, <<"email">>, <<"email", "required">>}
FormIds == {"g", ""}
FormMessages == {"", "Custom required", " "}

\* <input [id="g"] name="g" [masker=..] [required] [data-errMsg=..]>
FormField(mask, attr, id, msg) ==
    [BaseField EXCEPT !.id = id, !.name = "g", !.hasMasker = (mask # <<>>), !.masker = mask,
                      !.required = attr, !.errMsg = msg]

InitForm ==
    /\ today = RangeToday
    /\ \E mask \in FormMasks, attr \in BOOLEAN, id \in FormIds, msg \in FormMessages :
           /\ mask # <<>> \/ attr
           /\ doc = <<BeginDate(Empty, TRUE, "", "none"), EndDate(Empty, TRUE, "none"),
                      FormField(mask, attr, id, msg)>>
    /\ containers = <<>>
    /\ verdict = Null
    /\ parsed = NullDate
    /\ report = NoReport
    /\ subject = 0
    /\ applied = {}
    /\ IdleBinder

\* the user fills in one of the fields
TypeField ==
    /\ \E i \in 1..Len(doc) :
       \E v \in (IF i = 3 THEN FormTexts ELSE FormDateTexts) : v # doc[i].value /\ SetValue(i, v)
    /\ applied' = {}
    /\ UNCHANGED <<today, containers, verdict, parsed, report, subject, binderVars>>

\* what triggerAllValidations leaves and returns, given the outcome of its
\* first step: a throw in the loop leaves the function before anything is
\* scraped
FinishPass(pass) ==
    /\ containers' = pass.containers
    /\ report' = [list |-> IF pass.threw THEN <<>> ELSE ScrapeErrors(doc, pass.containers),
                  threw |-> pass.threw]

\* MaskerValidator.triggerAllValidations
TriggerAllValidations ==
    /\ FinishPass(ValidationPass(doc, containers, MaskerFields(doc, 1)))
    /\ applied' = {"validateAll"}
    /\ UNCHANGED <<today, doc, verdict, parsed, subject, binderVars>>

NextForm == TypeField \/ TriggerAllValidations

SpecForm == InitForm /\ [][NextForm]_vars

(***************************************************************************)
(* SpecBind: a page with a required date field inside the container "c"    *)
(* and a field carrying only the required attribute outside it.  Scripts   *)
(* call Masker.init with the default selector or a scope selector and any  *)
(* other options, call disconnectObserverFor, take the date field out of   *)
(* the document, put it back, hide it and show it; the                     *)
(* watchers are called with what was inserted; the user focuses, types,    *)
(* presses keys and leaves the fields; the timers fire.                    *)
(***************************************************************************)
MaxObservers == 2
MaxPending == 1
MaxTimers == 1

BindDate ==
    [BaseField EXCEPT !.id = "d", !.name = "d", !.hasMasker = TRUE, !.masker = <<"date", "required">>,
                      !.within = "c"]
BindRequired == [BaseField EXCEPT !.id = "r", !.name = "r", !.required = TRUE]

\* the fields the scripts of the page move, hide and show
ScriptedFields == {1}

\* the arguments of init: every combination of the options
InitArgs ==
    [selector : {"", "null", "[masker]", "[required]", "[", "#c"}, includeHidden : BOOLEAN, observe : BOOLEAN, container : {"", "#c"}]

\* the arguments the scripts of a page in use call init with: the default
\* candidates, of the document or of the container
PageArgs == [selector : {"", "#c"}, includeHidden : BOOLEAN, observe : BOOLEAN, container : {"", "#c"}]
TypedTexts == {<<"0", "3", "0", "1", "2", "0", "2", "5">>, <<"x">>}
Keys == {"Backspace", "a"}

InitBind ==
    /\ today = RangeToday
    /\ doc = <<BindDate, BindRequired>>
    /\ containers = <<>>
    /\ verdict = Null
    /\ parsed = NullDate
    /\ report = NoReport
    /\ subject = 0
    /\ applied = {}
    /\ IdleBinder

validatorVars == <<today, verdict, parsed, report, subject, applied>>

\* the fields, markers and listeners a binder state holds become the page's
Commit(b) ==
    /\ doc' = b.doc
    /\ maskBound' = b.maskBound
    /\ listeners' = b.listeners

\* the observer setup of init
Register(n) ==
    IF n.observe /\ ~Registered(observers, WatcherOf(n))
    THEN /\ Len(observers) < MaxObservers
         /\ observers' = Append(observers, WatcherOf(n))
         /\ mutations' = Append(mutations, <<>>)
    ELSE UNCHANGED <<observers, mutations>>

InitWith(n) ==
    /\ Commit(BindAll([doc |-> doc, maskBound |-> maskBound, listeners |-> listeners], Nodes(doc, n), n.includeHidden))
    /\ Register(n)

\* the fields among nodes that are bound already
BoundAmong(nodes) == {nodes[k] : k \in {j \in 1..Len(nodes) : maskBound[nodes[j]]}}

\* a binding pass over nodes ended
Passed(type, nodes) == lastEvent' = [NoEvent EXCEPT !.type = type, !.again = BoundAmong(nodes)]

\* Masker.init(arg) for an argument among args
InitAmong(args) ==
    /\ \E arg \in args :
           /\ InitWith(Normalize(arg))
           /\ Passed("init", Nodes(doc, Normalize(arg)))
    /\ UNCHANGED <<validatorVars, containers, attached, visible, timers>>

\* Masker.init(arg), any argument
MaskerInit == InitAmong(InitArgs)

\* Masker.init(arg) on the page in use
PageInit == InitAmong(PageArgs)

\* the MutationObserver callback of watcher k, called with its oldest batch
ObserverCallback ==
    /\ \E k \in 1..Len(observers) :
           /\ mutations[k] # <<>>
           /\ Commit(OnBatch([doc |-> doc, maskBound |-> maskBound, listeners |-> listeners],
                             observers[k], Head(mutations[k])))
           /\ mutations' = [mutations EXCEPT ![k] = Tail(@)]
           /\ Passed("added", SelectSeq(Head(mutations[k]), LAMBDA node : Offered(observers[k], doc[node])))
    /\ UNCHANGED <<validatorVars, containers, attached, visible, observers, timers>>

\* the registry without the watchers at the indexes dropped
Disconnect(kept) ==
    /\ observers' = Pick(observers, kept)
    /\ mutations' = Pick(mutations, kept)

\* Masker.disconnectObserverFor(target)
DisconnectObserverFor ==
    /\ \E target \in {"body", "c"} :
           /\ \E k \in 1..Len(observers) : observers[k].target = target
           /\ Disconnect(KeptIndexes(observers, target, 1))
    /\ lastEvent' = [NoEvent EXCEPT !.type = "disconnect"]
    /\ UNCHANGED <<validatorVars, doc, containers, attached, visible, maskBound, listeners, timers>>

\* a watcher sees what is inserted under its target
Watches(w, el) == w.target = "body" \/ w.target = el.within

\* a script puts a field back where it was: every watcher of a root above it
\* gets a batch with the node
InsertField ==
    /\ \E i \in ScriptedFields :
           /\ ~attached[i]
           /\ \A k \in 1..Len(observers) : Watches(observers[k], doc[i]) => Len(mutations[k]) < MaxPending
           /\ attached' = [attached EXCEPT ![i] = TRUE]
           /\ mutations' = [k \in 1..Len(observers) |->
                               IF Watches(observers[k], doc[i]) THEN Append(mutations[k], <<i>>) ELSE mutations[k]]
    /\ lastEvent' = NoEvent
    /\ UNCHANGED <<validatorVars, doc, containers, visible, maskBound, listeners, observers, timers>>

\* a script takes a field out of the document
RemoveField ==
    /\ \E i \in ScriptedFields : attached[i] /\ attached' = [attached EXCEPT ![i] = FALSE]
    /\ lastEvent' = NoEvent
    /\ UNCHANGED <<validatorVars, doc, containers, visible, maskBound, listeners, observers, mutations, timers>>

\* a script hides a field or shows it again
ToggleVisible ==
    /\ \E i \in ScriptedFields : visible' = [visible EXCEPT ![i] = ~@]
    /\ lastEvent' = NoEvent
    /\ UNCHANGED <<validatorVars, doc, containers, attached, maskBound, listeners, observers, mutations, timers>>

\* the page after the listeners of an event on field i ran
Dispatched(st, i, type) ==
    /\ doc' = st.doc
    /\ containers' = st.containers
    /\ timers' = st.timers
    /\ lastEvent' = [NoEvent EXCEPT !.type = type, !.target = i, !.ran = st.ran,
                                     !.scheduled = Len(st.timers) - Len(timers)]

\* the user can reach the fields that are in the document and rendered
Reachable(i) == attached[i] /\ visible[i]

Page == [doc |-> doc, containers |-> containers, timers |-> timers, ran |-> <<>>]

\* the user focuses a field, presses a key in it, or leaves it
UserEvent ==
    /\ Len(timers) < MaxTimers
    /\ \E i \in 1..Len(doc), type \in {"focus", "keydown", "blur", "change"}, key \in Keys :
           /\ Reachable(i)
           /\ type # "keydown" => key = "a"
           /\ Dispatched(Dispatch(Page, i, type, listeners[i], key), i, type)
    /\ UNCHANGED <<validatorVars, attached, visible, maskBound, listeners, observers, mutations>>

\* the user types: the field holds the text when its input listeners run
UserInput ==
    /\ Len(timers) < MaxTimers
    /\ \E i \in 1..Len(doc), text \in TypedTexts :
           /\ Reachable(i)
           /\ Dispatched(Dispatch(SetVal(Page, i, text), i, "input", listeners[i], ""), i, "input")
    /\ UNCHANGED <<validatorVars, attached, visible, maskBound, listeners, observers, mutations>>

\* the page after a timer callback ran
Fired(st) ==
    /\ doc' = st.doc
    /\ containers' = st.containers
    /\ timers' = Tail(timers)

\* the oldest timer fires; lastEvent names the callback that ran and its field
TimerFire ==
    /\ timers # <<>>
    /\ IF Head(timers)[1] = "validate" THEN Fired(HandleValidation(Page, Head(timers)[2]))
       ELSE Fired(ClampNow(Page, Head(timers)[2], Head(timers)[3]))
    /\ lastEvent' = [NoEvent EXCEPT !.type = Head(timers)[1], !.target = Head(timers)[2]]
    /\ UNCHANGED <<validatorVars, attached, visible, maskBound, listeners, observers, mutations>>

NextBind ==
    \/ PageInit
    \/ ObserverCallback
    \/ DisconnectObserverFor
    \/ InsertField
    \/ RemoveField
    \/ ToggleVisible
    \/ UserEvent
    \/ UserInput
    \/ TimerFire

SpecBind == InitBind /\ [][NextBind]_vars

(***************************************************************************)
(* SpecEmail: one email field, with or without a declared message; the     *)
(* user types any text over a small alphabet, or one of the addresses the  *)
(* documentation names, and the field is validated.                        *)
(***************************************************************************)
MaxEmailLen == 5

EmailAlphabet == {"a", "@", ".", " "}
EmailExamples ==
    {<<"a", "@", "b", ".", "c", "o", "m">>, <<"a", "@", "b">>, <<"a", " ", "b", "@", "c", ".", "c", "o", "m">>}
EmailMessages == {"", "Use your work address"}

\* <input id="e" masker="email" [data-errMsg=..]>
EmailField(msg) ==
    [BaseField EXCEPT !.id = "e", !.name = "e", !.hasMasker = TRUE, !.masker = <<"email">>, !.errMsg = msg]

InitEmail ==
    /\ today = RangeToday
    /\ \E msg \in EmailMessages : doc = <<EmailField(msg)>>
    /\ containers = <<>>
    /\ verdict = Null
    /\ parsed = NullDate
    /\ report = NoReport
    /\ subject = 0
    /\ applied = {}
    /\ IdleBinder

\* what the field can hold after the user typed one more character, pasted one
\* of the addresses or emptied the field
EmailTexts(v) ==
    EmailExamples \cup {Empty} \cup (IF Len(v) < MaxEmailLen THEN {Append(v, c) : c \in EmailAlphabet} ELSE {})

\* the user types an address
TypeEmail ==
    /\ \E v \in EmailTexts(doc[1].value) : v # doc[1].value /\ SetValue(1, v)
    /\ verdict' = Null
    /\ subject' = 0
    /\ applied' = {}
    /\ UNCHANGED <<today, containers, parsed, report, binderVars>>

\* MaskerValidator.validateEmail(el)
ApplyValidateEmail ==
    /\ applied = {}
    /\ verdict' = ValidateEmail(doc[1])
    /\ subject' = 1
    /\ applied' = {"validateEmail"}
    /\ UNCHANGED <<today, doc, containers, parsed, report, binderVars>>

\* MaskerValidator.validate(el) on the email field
ValidateEmailField ==
    /\ applied = {}
    /\ verdict' = Validate(doc, 1)
    /\ subject' = 1
    /\ applied' = {"validate"}
    /\ UNCHANGED <<today, doc, containers, parsed, report, binderVars>>

NextEmail == TypeEmail \/ ApplyValidateEmail \/ ValidateEmailField

SpecEmail == InitEmail /\ [][NextEmail]_vars

(***************************************************************************)

(* SpecMask: one bound phone field whose digit template is the default one *)
(* or written out in data-format.  The user types a character at the end   *)
(* of the value or in front of it, deletes the last one or pastes a text;  *)
(* the browser changes the value and then dispatches the input event.      *)
(***************************************************************************)
MaskTemplates ==
    {Empty, <<"0", "0", "-", "0">>, <<"(", "0", ")", " ", "0", "0">>, <<"0", "-", "0", "0", " ", "x">>}
MaskKeys == {"1", "2", "x"}
PastedTexts == {<<"a", "1", "b", "2", "c", "3", "d", "4">>, <<"9", "8", "7", "6", "5", "4", "3", "2", "1", "0", "9", "8">>}

\* <input id="t" masker="phone" [data-format=..]>
MaskField(fmt) ==
    [BaseField EXCEPT !.id = "t", !.name = "t", !.hasMasker = TRUE, !.masker = <<"phone">>, !.format = fmt]

InitMask ==
    /\ today = RangeToday
    /\ \E fmt \in MaskTemplates : doc = <<MaskField(fmt)>>
    /\ containers = <<>>
    /\ verdict = Null
    /\ parsed = NullDate
    /\ report = NoReport
    /\ subject = 0
    /\ applied = {}
    /\ attached = <<TRUE>>
    /\ visible = <<TRUE>>
    /\ maskBound = <<TRUE>>
    /\ listeners = <<AddedListeners(doc[1])>>
    /\ observers = <<>>
    /\ mutations = <<>>
    /\ timers = <<>>
    /\ lastEvent = NoEvent

\* what an edit of the user can make of the value v
Edited(v) ==
    {Append(v, c) : c \in MaskKeys} \cup {<<c>> \o v : c \in MaskKeys} \cup PastedTexts
    \cup (IF v = Empty THEN {} ELSE {SubSeq(v, 1, Len(v) - 1)})

\* the value changes under the user's hands; the input event is pending
EditValue ==
    /\ applied # {"edit"}
    /\ \E v \in Edited(doc[1].value) : SetValue(1, v)
    /\ applied' = {"edit"}
    /\ lastEvent' = NoEvent
    /\ UNCHANGED <<today, containers, verdict, parsed, report, subject, attached, visible, maskBound, listeners,
                   observers, mutations, timers>>

\* the input event: the input listeners of the field run
InputEvent ==
    /\ applied = {"edit"}
    /\ Dispatched(Dispatch(Page, 1, "input", listeners[1], ""), 1, "input")
    /\ applied' = {"input"}
    /\ UNCHANGED <<today, verdict, parsed, report, subject, attached, visible, maskBound, listeners,
                   observers, mutations>>

NextMask == EditValue \/ InputEvent

SpecMask == InitMask /\ [][NextMask]_vars

(***************************************************************************)
(* SpecPair: the bound members of one pairing group "p": its two dates,    *)
(* its two times, or its two dates and its begin time; none of them, the   *)
(* first of them or all of them carry single-line-errors.  The user types  *)
(* into the members, focuses and leaves them, and the delayed validation   *)
(* runs fire.                                                              *)
(***************************************************************************)
PairGroups ==
    {<<BeginDate(Empty, TRUE, "", ""), EndDate(Empty, TRUE, "")>>,
     <<BeginTime(Empty), EndTime(Empty)>>,
     <<BeginDate(Empty, TRUE, "", ""), EndDate(Empty, TRUE, ""), BeginTime(Empty)>>}
PairFlags == {"none", "first", "all"}

\* the members with single-line-errors set as the choice says
Flagged(group, flags) ==
    [k \in 1..Len(group) |->
        [group[k] EXCEPT !.singleLineErrors = (flags = "all" \/ (flags = "first" /\ k = 1))]]

\* what the user types into a member: the digits of a date, a time of day
PairTexts(el) ==
    IF HasToken(el.masker, "date")
    THEN {Empty, <<"0", "3", "0", "1", "2", "0", "2", "5">>, <<"0", "2", "0", "1", "2", "0", "2", "5">>}
    ELSE {Empty, WriteTime(840), WriteTime(540)}

InitPair ==
    /\ today = RangeToday
    /\ \E group \in PairGroups, flags \in PairFlags : doc = Flagged(group, flags)
    /\ containers = <<>>
    /\ verdict = Null
    /\ parsed = NullDate
    /\ report = NoReport
    /\ subject = 0
    /\ applied = {}
    /\ attached = [i \in 1..Len(doc) |-> TRUE]
    /\ visible = [i \in 1..Len(doc) |-> TRUE]
    /\ maskBound = [i \in 1..Len(doc) |-> TRUE]
    /\ listeners = [i \in 1..Len(doc) |-> AddedListeners(doc[i])]
    /\ observers = <<>>
    /\ mutations = <<>>
    /\ timers = <<>>
    /\ lastEvent = NoEvent

\* the user types into a member: the field holds the text when its input listeners run
PairInput ==
    /\ Len(timers) < MaxTimers
    /\ \E i \in 1..Len(doc) : \E text \in PairTexts(doc[i]) :
           Dispatched(Dispatch(SetVal(Page, i, text), i, "input", listeners[i], ""), i, "input")
    /\ UNCHANGED <<validatorVars, attached, visible, maskBound, listeners, observers, mutations>>

NextPair == PairInput \/ UserEvent \/ TimerFire

SpecPair == InitPair /\ [][NextPair]_vars

(***************************************************************************)
(* SpecBlur: a bound required date field, or the two bound dates or the    *)
(* two bound times of the pairing group "p" (none with single-line-errors).*)
(* The user types into the fields and leaves them, several times before a  *)
(* delayed validation run fires; the runs fire in the order they were      *)
(* scheduled.                                                              *)
(***************************************************************************)
MaxRuns == 3

BlurPages ==
    {<<[BaseField EXCEPT !.id = "d", !.name = "d", !.hasMasker = TRUE, !.masker = <<"date", "required">>]>>,
     <<BeginDate(Empty, TRUE, "", ""), EndDate(Empty, TRUE, "")>>,
     <<BeginTime(Empty), EndTime(Empty)>>}

\* what the user types: the digits of two dates and of a day that does not
\* exist, two times of day
BlurTexts(el) ==
    IF HasToken(el.masker, "date")
    THEN {Empty, <<"0", "3", "0", "1", "2", "0", "2", "5">>, <<"0", "2", "0", "1", "2", "0", "2", "5">>,
          <<"0", "2", "3", "0", "2", "0", "2", "5">>}
    ELSE {Empty, WriteTime(840), WriteTime(540)}

InitBlur ==
    /\ today = RangeToday
    /\ doc \in BlurPages
    /\ containers = <<>>
    /\ verdict = Null
    /\ parsed = NullDate
    /\ report = NoReport
    /\ subject = 0
    /\ applied = {}
    /\ attached = [i \in 1..Len(doc) |-> TRUE]
    /\ visible = [i \in 1..Len(doc) |-> TRUE]
    /\ maskBound = [i \in 1..Len(doc) |-> TRUE]
    /\ listeners = [i \in 1..Len(doc) |-> AddedListeners(doc[i])]
    /\ observers = <<>>
    /\ mutations = <<>>
    /\ timers = <<>>
    /\ lastEvent = NoEvent

\* the user types into a field: the field holds the text when its input listeners run
BlurInput ==
    /\ \E i \in 1..Len(doc) : \E text \in BlurTexts(doc[i]) :
           Dispatched(Dispatch(SetVal(Page, i, text), i, "input", listeners[i], ""), i, "input")
    /\ UNCHANGED <<validatorVars, attached, visible, maskBound, listeners, observers, mutations>>

\* the user leaves a field, or the field reports a change
LeaveField ==
    /\ Len(timers) < MaxRuns
    /\ \E i \in 1..Len(doc), type \in {"blur", "change"} :
           Dispatched(Dispatch(Page, i, type, listeners[i], ""), i, type)
    /\ UNCHANGED <<validatorVars, attached, visible, maskBound, listeners, observers, mutations>>

NextBlur == BlurInput \/ LeaveField \/ TimerFire

SpecBlur == InitBlur /\ [][NextBlur]_vars

(***************************************************************************)
(* SpecTemplate: one bound field with a templated mask and without the     *)
(* 'visible' modifier: a phone field (US or DSN format), a date field (MDY *)
(* or YMD) or a military date field, required or not.  The user focuses    *)
(* the field, presses keys, edits the value and leaves the field, in any   *)
(* order; the delayed validation runs fire in the order they were          *)
(* scheduled.                                                              *)
(***************************************************************************)
TemplateFields ==
    {[BaseField EXCEPT !.id = "t", !.name = "t", !.hasMasker = TRUE, !.masker = <<"phone">>],
     [BaseField EXCEPT !.id = "t", !.name = "t", !.hasMasker = TRUE, !.masker = <<"phone", "required">>,
                       !.format = <<"D", "S", "N">>],
     [BaseField EXCEPT !.id = "t", !.name = "t", !.hasMasker = TRUE, !.masker = <<"date">>],
     [BaseField EXCEPT !.id = "t", !.name = "t", !.hasMasker = TRUE, !.masker = <<"date", "required">>,
                       !.format = FmtYMD],
     [BaseField EXCEPT !.id = "t", !.name = "t", !.hasMasker = TRUE, !.masker = <<"date">>,
                       !.format = FmtUSMIL]}

\* the template the setup function of the mask of el works with
TemplateOf(el) == VisibleTemplate(el)

\* the values an edit of the user leaves in the field before the input
\* listeners run: nothing, a digit typed in front of what the field held, the
\* last character deleted, and a pasted template
EditedValues(el) ==
    {Empty, <<"1">> \o el.value, <<"2", "0">> \o el.value, TemplateOf(el)}
    \cup (IF el.value = Empty THEN {} ELSE {SubSeq(el.value, 1, Len(el.value) - 1)})

InitTemplate ==
    /\ today = RangeToday
    /\ \E el \in TemplateFields : doc = <<el>>
    /\ containers = <<>>
    /\ verdict = Null
    /\ parsed = NullDate
    /\ report = NoReport
    /\ subject = 0
    /\ applied = {}
    /\ attached = [i \in 1..Len(doc) |-> TRUE]
    /\ visible = [i \in 1..Len(doc) |-> TRUE]
    /\ maskBound = [i \in 1..Len(doc) |-> TRUE]
    /\ listeners = [i \in 1..Len(doc) |-> AddedListeners(doc[i])]
    /\ observers = <<>>
    /\ mutations = <<>>
    /\ timers = <<>>
    /\ lastEvent = NoEvent

\* the user focuses the field
FocusField ==
    /\ \E i \in 1..Len(doc) : Dispatched(Dispatch(Page, i, "focus", listeners[i], ""), i, "focus")
    /\ UNCHANGED <<validatorVars, attached, visible, maskBound, listeners, observers, mutations>>

\* the user presses a key in the field: the keydown listeners run
PressKey ==
    /\ \E i \in 1..Len(doc), key \in Keys : Dispatched(Dispatch(Page, i, "keydown", listeners[i], key), i, "keydown")
    /\ UNCHANGED <<validatorVars, attached, visible, maskBound, listeners, observers, mutations>>

\* the user edits the value of a bound field: the input listeners run on the
\* edited value
EditField ==
    /\ \E i \in 1..Len(doc) : \E text \in EditedValues(doc[i]) :
           /\ maskBound[i]
           /\ Dispatched(Dispatch(SetVal(Page, i, text), i, "input", listeners[i], ""), i, "input")
    /\ UNCHANGED <<validatorVars, attached, visible, maskBound, listeners, observers, mutations>>

\* the user leaves the field: the blur listeners run
LeaveTemplated ==
    /\ Len(timers) < MaxRuns
    /\ \E i \in 1..Len(doc) : Dispatched(Dispatch(Page, i, "blur", listeners[i], ""), i, "blur")
    /\ UNCHANGED <<validatorVars, attached, visible, maskBound, listeners, observers, mutations>>

NextTemplate == FocusField \/ PressKey \/ EditField \/ LeaveTemplated \/ TimerFire

SpecTemplate == InitTemplate /\ [][NextTemplate]_vars

(***************************************************************************)
(* SpecVisible: one required field with a templated mask and the 'visible' *)
(* modifier: a phone field (US or DSN format) or a date field (MDY or      *)
(* YMD), required by the mask token, or by the attribute with a declared   *)
(* required message and a declared placeholder text.  A script binds the   *)
(* field, which writes the template into it; the user focuses it, presses  *)
(* keys, edits the value and leaves it; the delayed runs fire; a script    *)
(* calls MaskerValidator.validate on the field.                            *)
(***************************************************************************)
VisibleMasks == {<<"phone">>, <<"date">>}
VisibleFormats(mask) == IF mask = <<"phone">> THEN {Empty, <<"D", "S", "N">>} ELSE {Empty, FmtYMD}

\* <input id="t" masker=".. [required] visible" [required data-errMsg=.. placeholder=..] data-format=..>
VisibleField(mask, fmt, declared) ==
    [BaseField EXCEPT !.id = "t", !.name = "t", !.hasMasker = TRUE,
                      !.masker = mask \o (IF declared THEN <<>> ELSE <<"required">>) \o <<"visible">>,
                      !.required = declared,
                      !.errMsg = IF declared THEN "Custom required" ELSE "",
                      !.placeholder = IF declared THEN PatMDY ELSE Empty,
                      !.format = fmt]

InitVisible ==
    /\ today = RangeToday
    /\ \E mask \in VisibleMasks : \E fmt \in VisibleFormats(mask) : \E declared \in BOOLEAN :
           doc = <<VisibleField(mask, fmt, declared)>>
    /\ containers = <<>>
    /\ verdict = Null
    /\ parsed = NullDate
    /\ report = NoReport
    /\ subject = 0
    /\ applied = {}
    /\ IdleBinder

\* Masker.init() binds the field
BindVisible ==
    /\ ~maskBound[1]
    /\ Commit(BindElement([doc |-> doc, maskBound |-> maskBound, listeners |-> listeners], 1, FALSE))
    /\ lastEvent' = [NoEvent EXCEPT !.type = "init"]
    /\ UNCHANGED <<validatorVars, containers, attached, visible, observers, mutations, timers>>

\* a script calls MaskerValidator.validate(el) on the field
ValidateVisible ==
    /\ verdict' = Validate(doc, 1)
    /\ subject' = 1
    /\ applied' = {"validate"}
    /\ lastEvent' = [NoEvent EXCEPT !.type = "validated", !.target = 1]
    /\ UNCHANGED <<today, doc, containers, parsed, report, attached, visible, maskBound, listeners,
                   observers, mutations, timers>>

NextVisible ==
    \/ BindVisible
    \/ FocusField
    \/ PressKey
    \/ EditField
    \/ LeaveTemplated
    \/ TimerFire
    \/ ValidateVisible

SpecVisible == InitVisible /\ [][NextVisible]_vars

(***************************************************************************)
(* SpecNumber: one bound number field, with or without a declared maximum  *)
(* length, with or without a declared range.  The user types; the clamp    *)
(* timers the input listener starts fire in the order they were started,   *)
(* before or after further input.                                          *)
(***************************************************************************)
MaxClamps == 2

\* maxlength: none (maxLength reads -1), 2 or 3
MaxLengths == {-1, 2, 3}

\* min and max: none, 5 to 20, or a minimum of 5 alone
NumberRanges == {<<Empty, Empty>>, <<<<"5">>, <<"2", "0">>>>, <<<<"5">>, Empty>>}

\* <input id="n" masker="number" [maxlength=..] [min=.. max=..]>
NumberField(maxLength, range) ==
    [BaseField EXCEPT !.id = "n", !.name = "n", !.hasMasker = TRUE, !.masker = <<"number">>,
                      !.maxLength = maxLength, !.min = range[1], !.max = range[2]]

\* what the field holds after an edit of the user, before the input listeners run
NumberTexts ==
    {Empty, <<"7">>, <<"3">>, <<"1", "2">>, <<"9", "9">>, <<"1", "a", "2">>, <<"a", "b">>,
     <<"1", "2", "3">>, <<"0", "0", "7", "5">>, <<"-", "4">>}

InitNumber ==
    /\ today = RangeToday
    /\ \E maxLength \in MaxLengths, range \in NumberRanges : doc = <<NumberField(maxLength, range)>>
    /\ containers = <<>>
    /\ verdict = Null
    /\ parsed = NullDate
    /\ report = NoReport
    /\ subject = 0
    /\ applied = {}
    /\ attached = [i \in 1..Len(doc) |-> TRUE]
    /\ visible = [i \in 1..Len(doc) |-> TRUE]
    /\ maskBound = [i \in 1..Len(doc) |-> TRUE]
    /\ listeners = [i \in 1..Len(doc) |-> AddedListeners(doc[i])]
    /\ observers = <<>>
    /\ mutations = <<>>
    /\ timers = <<>>
    /\ lastEvent = NoEvent

\* the page after the input listeners of the number field ran on text
NumberTyped(text) == Dispatch(SetVal(Page, 1, text), 1, "input", listeners[1], "")

\* the user types into the number field
TypeNumber ==
    /\ Len(timers) < MaxClamps
    /\ \E text \in NumberTexts : Dispatched(NumberTyped(text), 1, "input")
    /\ UNCHANGED <<validatorVars, attached, visible, maskBound, listeners, observers, mutations>>

NextNumber == TypeNumber \/ TimerFire

SpecNumber == InitNumber /\ [][NextNumber]_vars

(***************************************************************************)
(* SpecApply: one bound field of each mask with a content-transforming     *)
(* applier: phone with the default template and with two templates written *)
(* out by the caller, date with a format code and with a pattern written   *)
(* out by the caller, military date, email, and the special-character      *)
(* filter.  The user leaves a text in the field, the input event runs the  *)
(* applier on it, and a second input event runs it on its own output.      *)
(***************************************************************************)
MaxTyped == 3

ApplyFields ==
    {[BaseField EXCEPT !.id = "t", !.name = "t", !.hasMasker = TRUE, !.masker = <<"phone">>],
     [BaseField EXCEPT !.id = "t", !.name = "t", !.hasMasker = TRUE, !.masker = <<"phone">>,
                       !.format = <<"0", "0", "-", "0">>],
     [BaseField EXCEPT !.id = "t", !.name = "t", !.hasMasker = TRUE, !.masker = <<"phone">>,
                       !.format = <<"+", "1", " ", "0", "0", "0">>],
     [BaseField EXCEPT !.id = "t", !.name = "t", !.hasMasker = TRUE, !.masker = <<"date">>],
     [BaseField EXCEPT !.id = "t", !.name = "t", !.hasMasker = TRUE, !.masker = <<"date">>,
                       !.format = <<"D", "D", ".", "M", "M">>],
     [BaseField EXCEPT !.id = "t", !.name = "t", !.hasMasker = TRUE, !.masker = <<"date">>,
                       !.format = FmtUSMIL],
     [BaseField EXCEPT !.id = "t", !.name = "t", !.hasMasker = TRUE, !.masker = <<"email">>],
     [BaseField EXCEPT !.id = "t", !.name = "t", !.hasMasker = TRUE, !.masker = <<"special">>]}

ApplyKeys == {"1", "2", "a", "!", " "}

\* the texts of at most n keys
RECURSIVE KeyTexts(_)
KeyTexts(n) ==
    IF n = 0 THEN {Empty}
    ELSE KeyTexts(n - 1) \cup {Append(t, c) : t \in KeyTexts(n - 1), c \in ApplyKeys}

\* what the field holds when the input event comes: typed keys, or a pasted
\* text longer than any template
ApplyTexts ==
    KeyTexts(MaxTyped)
    \cup {<<"9", "8", "7", "6", "5", "4", "3", "2", "1", "0", "9", "8">>,
          <<"2", "0", "2", "4", "j", "a", "n", "1", "5", "x">>,
          <<"a", ".", "b", "@", "c", "_", "d", "-", "e", " ", "f", "#">>}

InitApply ==
    /\ today = RangeToday
    /\ \E el \in ApplyFields : doc = <<el>>
    /\ containers = <<>>
    /\ verdict = Null
    /\ parsed = NullDate
    /\ report = NoReport
    /\ subject = 0
    /\ applied = {}
    /\ attached = <<TRUE>>
    /\ visible = <<TRUE>>
    /\ maskBound = <<TRUE>>
    /\ listeners = <<AddedListeners(doc[1])>>
    /\ observers = <<>>
    /\ mutations = <<>>
    /\ timers = <<>>
    /\ lastEvent = NoEvent

\* the user leaves a text in the field; the input event is pending
TypeText ==
    /\ applied # {"edit"}
    /\ \E text \in ApplyTexts : SetValue(1, text)
    /\ applied' = {"edit"}
    /\ lastEvent' = NoEvent
    /\ UNCHANGED <<today, containers, verdict, parsed, report, subject, attached, visible, maskBound, listeners,
                   observers, mutations, timers>>

\* a second input event on what the first one left: the input listeners run
\* on their own output
InputAgain ==
    /\ applied = {"input"}
    /\ Dispatched(Dispatch(Page, 1, "input", listeners[1], ""), 1, "input")
    /\ applied' = {"again"}
    /\ UNCHANGED <<today, verdict, parsed, report, subject, attached, visible, maskBound, listeners,
                   observers, mutations>>

NextApply == TypeText \/ InputEvent \/ InputAgain

SpecApply == InitApply /\ [][NextApply]_vars

(***************************************************************************)
(* SpecAgree: one field whose mask declaration names a type alone, after   *)
(* or before another token, or two types.  A script binds the field, the   *)
(* user leaves a text in it, and a script calls MaskerValidator.validate.  *)
(***************************************************************************)
Declarations ==
    {<<"date">>, <<"date", "required">>, <<"required", "date">>, <<"ancient", "date">>,
     <<"email">>, <<"required", "email">>, <<"special", "email">>,
     <<"time">>, <<"required", "time">>,
     <<"phone">>, <<"number">>, <<"special">>, <<"date", "phone">>, <<"time", "date">>, <<"date", "time">>}

\* <input id="t" masker=".."> ; type="time" when the declaration names time
DeclaredField(mask) ==
    [BaseField EXCEPT !.id = "t", !.name = "t", !.hasMasker = TRUE, !.masker = mask,
                      !.type = IF HasToken(mask, "time") THEN "time" ELSE "text"]

\* a date, a day that does not exist, an address, a time of day, an hour
\* that does not exist, a word
AgreeTexts ==
    {WriteDate(FmtMDY, 2025, 3, 1), WriteDate(FmtMDY, 2025, 2, 30), <<"a", "@", "b", ".", "c">>,
     WriteTime(570), <<"2", "5", ":", "0", "0">>, <<"a", "b", "c">>, Empty}

InitAgree ==
    /\ today = RangeToday
    /\ \E mask \in Declarations : doc = <<DeclaredField(mask)>>
    /\ containers = <<>>
    /\ verdict = Null
    /\ parsed = NullDate
    /\ report = NoReport
    /\ subject = 0
    /\ applied = {}
    /\ IdleBinder

\* the user leaves a text in the field
TypeAgree ==
    /\ \E text \in AgreeTexts : text # doc[1].value /\ SetValue(1, text)
    /\ lastEvent' = NoEvent
    /\ UNCHANGED <<today, containers, verdict, parsed, report, subject, applied, attached, visible, maskBound,
                   listeners, observers, mutations, timers>>

NextAgree == BindVisible \/ TypeAgree \/ ValidateVisible

SpecAgree == InitAgree /\ [][NextAgree]_vars

(***************************************************************************)
(* SpecAnchor: a page with members of the pairing group "p" in one of      *)
(* several document orders, the end time with or without its Minutes       *)
(* select, and a field "x" outside the group.  One field of the page, the  *)
(* subject, may declare data-error-anchor and may lack an id.  Scripts     *)
(* call _findErrorAnchor, displayError and clearError on the subject and   *)
(* on "x", and the delayed validation run of the subject fires.            *)
(***************************************************************************)
\* the end time with its Minutes select, or without
EndTimeWith(withSelect) == [EndTime(Empty) EXCEPT !.hasMinutes = withSelect]

Outsider == [BaseField EXCEPT !.id = "x", !.name = "x", !.hasMasker = TRUE, !.masker = <<"phone">>]

AnchorPages(withSelect) ==
    {<<BeginDate(Empty, TRUE, "", ""), EndDate(Empty, TRUE, ""), Outsider>>,
     <<BeginDate(Empty, TRUE, "", ""), BeginTime(Empty), EndDate(Empty, TRUE, ""), EndTimeWith(withSelect), Outsider>>,
     <<BeginDate(Empty, TRUE, "", ""), BeginTime(Empty), EndTimeWith(withSelect), EndDate(Empty, TRUE, ""), Outsider>>,
     <<BeginDate(Empty, TRUE, "", ""), BeginTime(Empty), Outsider>>,
     <<BeginTime(Empty), EndTimeWith(withSelect), Outsider>>,
     <<[BaseField EXCEPT !.id = "d", !.name = "d", !.hasMasker = TRUE, !.masker = <<"date">>], Outsider>>}

\* data-error-anchor: absent, the sentinel, a node of the page, the end date
\* (a node of some pages), a node of no page
AnchorOverrides == {"", "self", "x", "ed", "zz"}

ErrorTexts == {"Bad", "Worse"}

InitAnchor ==
    /\ today = RangeToday
    /\ \E withSelect \in BOOLEAN : \E page \in AnchorPages(withSelect) :
       \E i \in 1..Len(page) : \E override \in AnchorOverrides : \E noId \in BOOLEAN :
           /\ doc = [page EXCEPT ![i].errorAnchor = override, ![i].id = IF noId THEN "" ELSE @]
           /\ subject = i
    /\ containers = <<>>
    /\ verdict = Null
    /\ parsed = NullDate
    /\ report = NoReport
    /\ applied = {}
    /\ attached = [i \in 1..Len(doc) |-> TRUE]
    /\ visible = [i \in 1..Len(doc) |-> TRUE]
    /\ maskBound = [i \in 1..Len(doc) |-> TRUE]
    /\ listeners = [i \in 1..Len(doc) |-> AddedListeners(doc[i])]
    /\ observers = <<>>
    /\ mutations = <<>>
    /\ timers = <<>>
    /\ lastEvent = NoEvent

\* the fields the scripts call the helpers on: the subject and "x"
Helped == {subject, Len(doc)}

\* MaskerValidator._findErrorAnchor(el)
FindAnchorCall ==
    /\ \E i \in Helped :
           /\ parsed' = FindErrorAnchor(doc, i)
           /\ lastEvent' = [NoEvent EXCEPT !.type = "findErrorAnchor", !.target = i]
    /\ applied' = {"anchor"}
    /\ UNCHANGED <<today, doc, containers, verdict, report, subject, attached, visible, maskBound, listeners,
                   observers, mutations, timers>>

\* MaskerValidator.displayError(el, msg)
DisplayErrorCall ==
    /\ \E i \in Helped, msg \in ErrorTexts :
           /\ containers' = DisplayError(doc, containers, i, Text(msg))
           /\ lastEvent' = [NoEvent EXCEPT !.type = "displayError", !.target = i]
    /\ applied' = {"display"}
    /\ UNCHANGED <<today, doc, verdict, parsed, report, subject, attached, visible, maskBound, listeners,
                   observers, mutations, timers>>

\* MaskerValidator.clearError(el)
ClearErrorCall ==
    /\ \E i \in Helped :
           /\ containers' = ClearError(doc, containers, i)
           /\ lastEvent' = [NoEvent EXCEPT !.type = "clearError", !.target = i]
    /\ applied' = {"clear"}
    /\ UNCHANGED <<today, doc, verdict, parsed, report, subject, attached, visible, maskBound, listeners,
                   observers, mutations, timers>>

\* the delayed validation run of the subject, started by a blur, fires
RunValidation ==
    /\ containers' = HandleValidation(Page, subject).containers
    /\ lastEvent' = [NoEvent EXCEPT !.type = "validate", !.target = subject]
    /\ applied' = {"run"}
    /\ UNCHANGED <<today, doc, verdict, parsed, report, subject, attached, visible, maskBound, listeners,
                   observers, mutations, timers>>

NextAnchor == FindAnchorCall \/ DisplayErrorCall \/ ClearErrorCall \/ RunValidation

SpecAnchor == InitAnchor /\ [][NextAnchor]_vars

(***************************************************************************)
(* SpecWatch: the page of SpecBind with its scripts only: calls of init    *)
(* and disconnectObserverFor, fields taken out, put back, hidden and       *)
(* shown, and the watchers called with what was inserted.                  *)
(***************************************************************************)
NextWatch ==
    \/ MaskerInit
    \/ ObserverCallback
    \/ DisconnectObserverFor
    \/ InsertField
    \/ RemoveField
    \/ ToggleVisible

SpecWatch == InitBind /\ [][NextWatch]_vars

(***************************************************************************)
(* Claims checked under SpecDate                                           *)
(***************************************************************************)
\* the number of days of month m of year y, as the leap-year rule states it
RuleDaysInMonth(y, m) ==
    IF m = 2 THEN (IF (y % 4 = 0 /\ y % 100 # 0) \/ y % 400 = 0 THEN 29 ELSE 28)
    ELSE IF m \in {4, 6, 9, 11} THEN 30 ELSE 31

\* C10: for a date written in the field's declared format under a year policy
\* that admits its year, validateDate and #toDate (parseDate) accept day d of
\* month m of year y exactly when d is at most the number of days of that month,
\* February having 29 days in leap years only.
C10_LeapYearRule ==
    \A y \in Years, m \in Months, d \in Days :
        (/\ doc[1].value = WriteDate(doc[1].format, y, m, d)
         /\ YearPolicy(doc[1].masker, y, FALSE, FALSE) = Null)
        => /\ "validateDate" \in applied => ((verdict = Null) <=> (d <= RuleDaysInMonth(y, m)))
           /\ "toDate" \in applied => ((parsed # NullDate) <=> (d <= RuleDaysInMonth(y, m)))

\* the value of the field is the day d of month m of year y, a day of the
\* calendar, written in the declared format of the field
HoldsTriple(y, m, d) ==
    d <= RuleDaysInMonth(y, m) /\ doc[1].value = WriteDate(doc[1].format, y, m, d)

\* the field with the date t written in its declared format
Rewritten(t) == [doc[1] EXCEPT !.value = WriteDate(doc[1].format, t[1], t[2], t[3])]

\* C20: a day of the calendar written in the MDY, DMY or YMD format is parsed
\* by #toDate (parseDate) into the date of that year, month and day, and that
\* date written in the format is parsed into the same date again
C20_RoundTrip ==
    \A y \in Years, m \in Months, d \in Days :
        HoldsTriple(y, m, d) /\ "toDate" \in applied
        => parsed = <<y, m, d, 0>> /\ ToDate(Rewritten(parsed)) = parsed


(***************************************************************************)
(* Claims checked under SpecRange.  What the comparison should return is   *)
(* stated on the dates and times the fields were filled with, not on what  *)
(* the parsers make of them.                                               *)
(***************************************************************************)
\* member i of the group holds the date t, written MM/DD/YYYY
HoldsDate(i, t) == i # 0 /\ doc[i].value = WriteDate(FmtMDY, t[1], t[2], t[3])

\* member i of the group holds the time of day t, written HH:MM
HoldsTime(i, t) == i # 0 /\ doc[i].value = WriteTime(t)

\* member i holds no time: it is absent, empty, or what it holds is no time
NoTime(i) == \A t \in RangeTimes : ~HoldsTime(i, t)

\* member i holds no date: it is absent or empty
NoDate(i) == i = 0 \/ doc[i].value = Empty

\* calendar day a is strictly later than calendar day b
LaterDay(a, b) ==
    \/ a[1] > b[1]
    \/ a[1] = b[1] /\ a[2] > b[2]
    \/ a[1] = b[1] /\ a[2] = b[2] /\ a[3] > b[3]

\* the instant (day a, minute s) is strictly later than (day b, minute e)
LaterInstant(a, s, b, e) == LaterDay(a, b) \/ (a = b /\ s > e)

\* the title of a field in a message, a field without a title going by the
\* name of its role
Label(i, role) == IF doc[i].title # "" THEN doc[i].title ELSE role

\* the range message the group declares (on its begin date, else on its end
\* date), else the default one
DeclaredOr(default) ==
    IF doc[SD].errMsgRange # "" THEN Text(doc[SD].errMsgRange)
    ELSE IF doc[ED].errMsgRange # "" THEN Text(doc[ED].errMsgRange)
    ELSE Text(default)

\* C5: date-only range comparison.  When the begin date and the end date both
\* hold a date and neither time member holds a time, range comparison returns
\* an error exactly when the begin date is strictly after the end date, and the
\* error is the begin field's declared range-start message, else
\* "<begin title> cannot be set after <end title>".
C5_DateOnlyRange ==
    applied = {"range"} =>
        \A a \in RangeDates, b \in RangeDates :
            (HoldsDate(SD, a) /\ HoldsDate(ED, b) /\ NoTime(ST) /\ NoTime(ET))
            => verdict = IF LaterDay(a, b)
                         THEN IF doc[SD].errMsgRangeStart # "" THEN Text(doc[SD].errMsgRangeStart)
                              ELSE <<Label(SD, "Start date"), " cannot be set after ", Label(ED, "End date")>>
                         ELSE Null

\* begin 03/01/2025 after end 02/01/2025 with no times: the default message
C5_Witness ==
    /\ applied = {"range"}
    /\ HoldsDate(SD, <<2025, 3, 1>>) /\ HoldsDate(ED, <<2025, 2, 1>>)
    /\ NoTime(ST) /\ NoTime(ET)
    /\ doc[SD].title = "Start" /\ doc[SD].errMsgRangeStart = ""
    /\ verdict = <<"Start", " cannot be set after ", "End">>

\* C6 (as amended): full date+time range comparison.  When all four members
\* hold a date or a time, then on the same calendar day the error is the
\* declared range message, else "End time must be after start time on the same
\* day.", returned exactly when begin-minutes >= end-minutes; on differing days
\* an error is returned exactly when the begin instant is strictly after the
\* end instant.
C6_FullRange ==
    applied = {"range"} =>
        \A a \in RangeDates, b \in RangeDates, s \in RangeTimes, e \in RangeTimes :
            (HoldsDate(SD, a) /\ HoldsTime(ST, s) /\ HoldsDate(ED, b) /\ HoldsTime(ET, e))
            => IF a = b
               THEN verdict = IF s >= e
                              THEN DeclaredOr("End time must be after start time on the same day.")
                              ELSE Null
               ELSE (verdict # Null) <=> LaterInstant(a, s, b, e)

\* the same day, 14:00 to 09:00, no declared range message
C6_Witness ==
    /\ applied = {"range"}
    /\ \E a \in RangeDates : HoldsDate(SD, a) /\ HoldsDate(ED, a)
    /\ HoldsTime(ST, 840) /\ HoldsTime(ET, 540)
    /\ verdict = Text("End time must be after start time on the same day.")

\* C6 as stated: on the same calendar day the error is "End time must be after
\* start time on the same day."
C6_AsStated ==
    applied = {"range"} =>
        \A a \in RangeDates, b \in RangeDates, s \in RangeTimes, e \in RangeTimes :
            (HoldsDate(SD, a) /\ HoldsTime(ST, s) /\ HoldsDate(ED, b) /\ HoldsTime(ET, e))
            => IF a = b
               THEN verdict = IF s >= e
                              THEN Text("End time must be after start time on the same day.")
                              ELSE Null
               ELSE (verdict # Null) <=> LaterInstant(a, s, b, e)

\* C7: time-only pairs.  In a group whose begin time and end time both hold a
\* time and in which no date is present, validate of a member returns the range
\* message ("End time must be after start time." or the declared range message)
\* exactly when begin-minutes >= end-minutes, and no error otherwise.
C7_TimeOnlyPair ==
    applied = {"validate"} =>
        \A s \in RangeTimes, e \in RangeTimes :
            (HoldsTime(ST, s) /\ HoldsTime(ET, e) /\ NoDate(SD) /\ NoDate(ED))
            => verdict = IF s < e THEN Null
                         ELSE IF SD # 0 /\ doc[SD].errMsgRange # "" THEN Text(doc[SD].errMsgRange)
                         ELSE IF ED # 0 /\ doc[ED].errMsgRange # "" THEN Text(doc[ED].errMsgRange)
                         ELSE Text("End time must be after start time.")

\* C8: whenever the begin date and the end date both hold a date and the begin
\* date is a strictly later calendar day than the end date, range comparison
\* returns an error, whatever the two time members hold.
C8_StartBeforeEnd ==
    applied = {"range"} =>
        \A a \in RangeDates, b \in RangeDates :
            (HoldsDate(SD, a) /\ HoldsDate(ED, b) /\ LaterDay(a, b)) => Truthy(verdict) /\ ~Thrown(verdict)

(***************************************************************************)
(* Claims checked under SpecValidate                                       *)
(***************************************************************************)
\* field i is flagged required: the required attribute, or "required" among the
\* tokens of its mask declaration
FlaggedRequired(i) ==
    doc[i].required \/ (doc[i].hasMasker /\ \E k \in 1..Len(doc[i].masker) : doc[i].masker[k] = "required")

\* the required message of field i: its data-errMsg text, else the default
RequiredMessage(i) == IF doc[i].errMsg # "" THEN Text(doc[i].errMsg) ELSE Text("This field is required.")

\* C1: with the default priority, validate on a field flagged required whose
\* value is empty returns that field's required message, whatever its mask
\* type, format code, year policy or pairing-group state.
C1_RequiredFirst ==
    \A i \in 1..Len(doc) :
        (applied = {"validate"} /\ subject = i /\ FlaggedRequired(i) /\ doc[i].value = Empty)
        => verdict = RequiredMessage(i)

\* an empty required begin date in a group whose times run 14:00 to 09:00, so
\* that the range check has an error of its own to report
C1_Witness ==
    /\ applied = {"validate"} /\ subject = 1
    /\ FlaggedRequired(1) /\ doc[1].value = Empty
    /\ doc[1].masker = <<"date", "begin", "required">>
    /\ Len(doc) = 3
    /\ Truthy(CheckComplex(doc, 1))
    /\ verdict = Text("This field is required.")

\* the three checks of validate
CheckNames == {"required", "format", "complex"}

\* the entries of a priority map that name a check
Named(priority) == {k \in 1..Len(priority) : priority[k][1] \in CheckNames}

\* what the check an entry names returns for field i
ResultOf(i, entry) == RunCheck(doc, i, entry[1])

\* the error of entry k is the first one in ascending order of the numbers
\* (entries with equal numbers in either order)
FirstFailing(priority, i, k) ==
    /\ Truthy(ResultOf(i, priority[k]))
    /\ \A j \in Named(priority) : priority[j][2] < priority[k][2] => ~Truthy(ResultOf(i, priority[j]))

\* validate was called on field i with the priority map
ValidatedWith(priority, i) == applied = {"validate", ToString(priority)} /\ subject = i

\* C21: validate with a priority map returns the error of the first failing
\* check among those the map names, in ascending order of their numbers, and
\* no error when none of them fails; checks the map does not name and names
\* that are no checks do not count
C21_PriorityOrder ==
    \A priority \in Priorities, i \in 1..Len(doc) :
        ValidatedWith(priority, i)
        => /\ ~Thrown(verdict)
           /\ Truthy(verdict) => \E k \in Named(priority) : FirstFailing(priority, i, k) /\ verdict = ResultOf(i, priority[k])
           /\ ~Truthy(verdict) => \A k \in Named(priority) : ~Truthy(ResultOf(i, priority[k]))

(***************************************************************************)
(* Claims checked under SpecForm                                           *)
(***************************************************************************)
\* field i is a candidate of the form: it carries a mask declaration or the
\* generic required marker
IsCandidate(i) == doc[i].hasMasker \/ doc[i].required

\* field i is required and empty
RequiredAndEmpty(i) == FlaggedRequired(i) /\ doc[i].value = Empty

\* C2: on a form where exactly one candidate field is required and empty and
\* every other candidate field validates with no error, triggerAllValidations
\* returns a list of exactly one entry, whose id is that field's identity and
\* whose message is its required message, for a field carrying a mask
\* declaration as well as for one carrying only the required attribute.
C2_OneRequiredFailure ==
    \A i \in 1..Len(doc) :
        (/\ applied = {"validateAll"}
         /\ IsCandidate(i) /\ RequiredAndEmpty(i)
         /\ \A j \in 1..Len(doc) : (j # i /\ IsCandidate(j)) => Validate(doc, j) = Null)
        => /\ ~report.threw
           /\ Len(report.list) = 1
           /\ report.list[1].id = doc[i].id
           /\ report.list[1].message = RequiredMessage(i)

\* C3: triggerAllValidations returns an empty list only if the form is valid:
\* whenever the returned list is empty, validate(el) returns no error for every
\* [masker] element of the document at the time of the call.
C3_EmptyMeansValid ==
    (applied = {"validateAll"} /\ ~report.threw /\ report.list = <<>>)
    => \A i \in 1..Len(doc) : doc[i].hasMasker => ~Truthy(Validate(doc, i))

\* C9: a single triggerAllValidations pass over a form whose only violation is
\* a begin-date-after-end-date conflict inside one pairing group yields exactly
\* one failure for that group, and that failure identifies the begin field.
C9_OneRangeResult ==
    (/\ applied = {"validateAll"}
     /\ \E a \in FormDates, b \in FormDates :
            /\ doc[1].value = WriteDate(FmtMDY, a[1], a[2], a[3])
            /\ doc[2].value = WriteDate(FmtMDY, b[1], b[2], b[3])
            /\ LaterDay(a, b)
     /\ ~RequiredAndEmpty(3) /\ Validate(doc, 3) = Null)
    => /\ Len(report.list) = 1
       /\ report.list[1].id = doc[1].id

(***************************************************************************)
(* Claims checked under SpecBind                                           *)
(***************************************************************************)
\* how many times listener l is attached among ls
Attached(ls, l) == Cardinality({k \in 1..Len(ls) : ls[k] = l})

\* the listeners #bindElement and the setup of a date mask attach to a field
DateSet ==
    {<<"blur", "handleValidation">>, <<"focus", "date">>, <<"input", "date">>, <<"keydown", "date">>,
     <<"blur", "date">>, <<"change", "handleValidation">>}

\* C4: binding is idempotent.  After any sequence of Masker.init calls and
\* watcher callbacks, a bound field carries each of its listeners exactly once
\* (the blur validation listener, and for the date field the focus, input,
\* keydown and blur listeners of the mask) and an unbound field carries none;
\* so an input event runs the mask transform once and each other listener of
\* the event once, and a blur of a bound field schedules exactly one delayed
\* validation run.
C4_BoundOnce ==
    /\ \A i \in 1..Len(doc) :
           /\ \A k \in 1..Len(listeners[i]) : Attached(listeners[i], listeners[i][k]) = 1
           /\ Attached(listeners[i], <<"blur", "handleValidation">>) = (IF maskBound[i] THEN 1 ELSE 0)
           /\ ~maskBound[i] => listeners[i] = <<>>
    /\ maskBound[1] => \A l \in DateSet : Attached(listeners[1], l) = 1
    /\ lastEvent.type # "" =>
           \A k \in 1..Len(lastEvent.ran) : Attached(lastEvent.ran, lastEvent.ran[k]) = 1
    /\ lastEvent.type = "input" /\ lastEvent.target = 1 =>
           Attached(lastEvent.ran, <<"input", "date">>) = (IF maskBound[1] THEN 1 ELSE 0)
    /\ lastEvent.type = "blur" =>
           lastEvent.scheduled = (IF maskBound[lastEvent.target] THEN 1 ELSE 0)

\* a binding pass went over both fields when both were bound already
C4_Witness ==
    /\ lastEvent.type \in {"init", "added"}
    /\ lastEvent.again = {1, 2}
    /\ \A i \in 1..Len(doc) : maskBound[i] /\ listeners[i] # <<>>


(***************************************************************************)
(* Claims checked under SpecEmail                                          *)
(***************************************************************************)
\* a character that is neither whitespace nor @
AddressChar(c) == c # " " /\ c # "@"

\* local part, @, host, dot, rest: each part one or more address characters
AddressShape(s) ==
    \E a \in 2..Len(s) : \E p \in (a + 2)..(Len(s) - 1) :
        /\ s[a] = "@"
        /\ s[p] = "."
        /\ \A i \in (1..Len(s)) \ {a} : AddressChar(s[i])

EmailFormatMessage == OrElse(doc[1].errMsg, Text("Please enter a valid email address."))

\* C11: email validation (validateEmail, and validate on an email field)
\* accepts a non-empty value exactly when it is one or more characters that
\* are neither whitespace nor @, then @, then one or more such characters,
\* then a dot, then one or more such characters; a value it does not accept
\* gets the declared message of the field, else 'Please enter a valid email
\* address.'.  'a@b.com' passes, 'a@b' and 'a b@c.com' fail.
C11_EmailShape ==
    applied # {} /\ doc[1].value # Empty =>
        /\ verdict = Null <=> AddressShape(doc[1].value)
        /\ verdict # Null => verdict = EmailFormatMessage
        /\ doc[1].value = <<"a", "@", "b", ".", "c", "o", "m">> => verdict = Null
        /\ doc[1].value \in {<<"a", "@", "b">>, <<"a", " ", "b", "@", "c", ".", "c", "o", "m">>}
               => verdict = EmailFormatMessage

\* 'a b@c.com' was validated and got the declared message of the field
C11_Witness ==
    /\ applied = {"validateEmail"}
    /\ doc[1].value = <<"a", " ", "b", "@", "c", ".", "c", "o", "m">>
    /\ doc[1].errMsg # ""
    /\ verdict = Text(doc[1].errMsg)


(***************************************************************************)
(* Claims checked under SpecMask.  A slot of a digit template is a         *)
(* position that holds "0"; every other character is a separator.          *)
(***************************************************************************)
\* the number of slots among the first i characters of a template
SlotsUpTo(fmt, i) == Cardinality({m \in 1..i : fmt[m] = "0"})

Capacity(fmt) == SlotsUpTo(fmt, Len(fmt))

\* the position of the k-th slot, for k from 1 to the capacity
SlotPosition(fmt, k) == Cardinality({i \in 1..Len(fmt) : SlotsUpTo(fmt, i) < k}) + 1

\* the whole template with its first slots holding the digits, in order
Placed(fmt, digits) ==
    [i \in 1..Len(fmt) |->
        IF fmt[i] = "0" /\ SlotsUpTo(fmt, i) <= Len(digits) THEN digits[SlotsUpTo(fmt, i)] ELSE fmt[i]]

\* the input listener ran on the value the user left
InputStep == applied = {"edit"} /\ applied' = {"input"}

\* the output of the applier for the digits, as the code produces it
UpToLastDigit(fmt, digits, out) ==
    /\ Len(digits) = 0 => out = Empty
    /\ Len(digits) \in 1..Capacity(fmt) => out = SubSeq(Placed(fmt, digits), 1, SlotPosition(fmt, Len(digits)))
    /\ Len(digits) > Capacity(fmt) => out = Placed(fmt, digits) /\ Len(out) = Len(fmt)

\* the output of the applier for the digits, with the rest of the template shown
WholeTemplate(fmt, digits, out) ==
    /\ Len(digits) < Capacity(fmt) => out = Placed(fmt, digits)
    /\ Len(digits) > Capacity(fmt) => out = Placed(fmt, digits) /\ Len(out) = Len(fmt)

\* C12 (amended): for every template and every input holding k digits, the
\* digit-template applier leaves the template up to and including its k-th
\* slot, the first k slots holding the k digits in input order and the
\* separators before them as literals, and nothing of the template after the
\* k-th slot (the empty text when k is 0); when k exceeds the capacity the
\* excess digits are dropped and the output length equals the template length.
C12_DigitsInSlots ==
    [][InputStep => UpToLastDigit(PhoneFormat(doc[1]), OnlyDigits(doc[1].value), doc'[1].value)]_vars

\* two digits went into the template '(0) 00': the output ends with the second digit
C12_Witness ==
    /\ applied = {"input"}
    /\ doc[1].format = <<"(", "0", ")", " ", "0", "0">>
    /\ doc[1].value = <<"(", "1", ")", " ", "2">>

\* C12 as stated: for every template and every input holding k digits, when k
\* is below the capacity the output holds the k digits in the first k slots
\* and the remaining slots and separators appear as template literals; when k
\* exceeds the capacity the excess is dropped and the output has the
\* template's length.
C12_AsStated ==
    [][InputStep => WholeTemplate(PhoneFormat(doc[1]), OnlyDigits(doc[1].value), doc'[1].value)]_vars


(***************************************************************************)
(* Claims checked under SpecPair                                           *)
(***************************************************************************)
\* the other members of the pairing group of field i
OtherMembers(i) == {p \in 1..Len(doc) : p # i /\ doc[p].pair = doc[i].pair}

\* the error container linked to field p holds the text and has the display
ContainerShows(p, text, display) ==
    /\ ContainerFor(containers, doc[p].id) # 0
    /\ containers[ContainerFor(containers, doc[p].id)].text = text
    /\ containers[ContainerFor(containers, doc[p].id)].display = display

\* field p shows the result r of validate: the message, or nothing
ShowsResult(p, r) ==
    IF r # Null /\ r # Text("") THEN ContainerShows(p, r, "inline") ELSE ContainerShows(p, Text(""), "none")

\* the delayed validation run of field i just ended
CycleEnded(i) == lastEvent.type = "validate" /\ lastEvent.target = i /\ doc[i].pair # ""

\* C13: when the delayed validation run of a field carrying single-line-errors
\* ends, every other member of its pairing group shows exactly its own
\* validate result (its message, or a cleared container); when the run of a
\* field without the flag ends, the error of every other member of the group
\* is cleared.
C13_SingleLineErrors ==
    \A i \in 1..Len(doc) : CycleEnded(i) =>
        \A p \in OtherMembers(i) :
            IF doc[i].singleLineErrors THEN ShowsResult(p, Validate(doc, p))
            ELSE ContainerShows(p, Text(""), "none")


(***************************************************************************)
(* Claims checked under SpecRange: validate on the members of any group    *)
(***************************************************************************)
\* C14: validation never raises: validate(el) on a member of a pairing group,
\* whatever members the group has (only times, only one date, ..) and whatever
\* they hold, returns a message or null and does not throw.
C14_NeverRaises == applied = {"validate"} => ~Thrown(verdict)


(***************************************************************************)
(* Claims checked under SpecPair: the error containers                     *)
(***************************************************************************)
\* at most one container is linked to a field identity
OnePerIdentity ==
    \A k, m \in 1..Len(containers) : containers[k].errorFor = containers[m].errorFor => k = m

\* a container is hidden with no text, or shown with a message
HiddenOrShown ==
    \A k \in 1..Len(containers) :
        \/ containers[k].display = "none" /\ containers[k].text = Text("")
        \/ containers[k].display = "inline" /\ Truthy(containers[k].text)

\* every container is still in the document, linked to the same identity and
\* after the same anchor, in the same order
ContainersKept ==
    \A k, m \in 1..Len(containers) : k < m =>
        \E kk, mm \in 1..Len(containers') :
            /\ kk < mm
            /\ containers'[kk].errorFor = containers[k].errorFor /\ containers'[kk].anchor = containers[k].anchor
            /\ containers'[mm].errorFor = containers[m].errorFor /\ containers'[mm].anchor = containers[m].anchor

ContainerKept ==
    /\ Len(containers') >= Len(containers)
    /\ \A k \in 1..Len(containers) : \E kk \in 1..Len(containers') :
           containers'[kk].errorFor = containers[k].errorFor /\ containers'[kk].anchor = containers[k].anchor

\* C15: after any sequence of blur listeners and delayed validation runs (each
\* a sequence of displayError and clearError calls), at most one error
\* container is linked to a field identity; a container, once created, stays in
\* the document where it was put; a cleared container has no text and is
\* hidden; so a later error of the field is shown in the container it has.
C15_OneContainer ==
    /\ [](OnePerIdentity /\ HiddenOrShown)
    /\ [][ContainerKept /\ ContainersKept]_vars

\* a delayed run ended with the error of the field it was for shown in the
\* container its clearError created, the container of the partner cleared
C15_Witness ==
    /\ lastEvent.type = "validate"
    /\ Len(containers) = Len(doc)
    /\ ContainerShows(lastEvent.target, Validate(doc, lastEvent.target), "inline")
    /\ \E p \in OtherMembers(lastEvent.target) : ContainerShows(p, Text(""), "none")


(***************************************************************************)
(* Claims checked under SpecDate: the year policy                          *)
(***************************************************************************)
\* the messages validateDate has for a year outside the range of the policy
YearRangeMessages(n) ==
    {Text("Year cannot be in the future."), Text("Year cannot be in the past."),
     Text("Year cannot be before 2000."), <<"Year must be between 2000 and ", ToString(n), ".">>,
     Text("Year cannot be before 1900."), <<"Year must be between 1900 and ", ToString(n), ".">>,
     <<"Year cannot be before ", ToString(n), ".">>}

\* a range policy with a floor: years before it, and years after the current
\* one unless ignore-max is set
FloorRejects(mask, floor, y, n) == y < floor \/ (~HasToken(mask, "ignore-max") /\ y > n)

\* the year policy as the modifiers of the mask state it, for year y in year n
PolicyRejects(mask, y, n) ==
    /\ ~Includes(mask, <<"ancient", "future">>)
    /\ \/ HasToken(mask, "ancient") /\ y > n
       \/ HasToken(mask, "future") /\ y < n
       \/ HasToken(mask, "2000") /\ FloorRejects(mask, 2000, y, n)
       \/ HasToken(mask, "1900") /\ FloorRejects(mask, 1900, y, n)
       \/ /\ \A t \in {"ancient", "future", "1900", "2000", "year-digits-any"} : ~HasToken(mask, t)
          /\ y < n

\* C16: for a date in the declared format with year y, in the current year N,
\* validateDate answers with a year-range message exactly when the policy of
\* the mask rejects y: 'ancient' rejects y > N; 'future' rejects y < N; '2000'
\* and '1900' reject the years before them and, unless 'ignore-max' is set,
\* y > N; the flag 'ancient future' disables every year check; with none of
\* these and without 'year-digits-any', y < N is rejected; 'ignore-max' changes
\* nothing for 'ancient' and for the default policy.
C16_YearPolicy ==
    \A y \in Years, m \in Months, d \in Days :
        doc[1].value = WriteDate(doc[1].format, y, m, d) /\ "validateDate" \in applied
        => (verdict \in YearRangeMessages(today[1]) <=> PolicyRejects(doc[1].masker, y, today[1]))

\* a year after the current one was accepted under '2000 ignore-max'
C16_Witness ==
    /\ "validateDate" \in applied
    /\ doc[1].masker = <<"date", "2000", "ignore-max">>
    /\ doc[1].value = WriteDate(doc[1].format, 2024, 2, 29)
    /\ today[1] = 2023
    /\ verdict = Null


(***************************************************************************)
(* Claims checked under SpecWatch: the options of init and the watchers    *)
(***************************************************************************)
\* the step is a call Masker.init(arg)
InitCall(arg) == lastEvent'.type = "init" /\ InitWith(Normalize(arg))

\* the fields the step binds
NewlyBound == {i \in 1..Len(doc) : maskBound'[i] /\ ~maskBound[i]}

\* C17: a call of init with a container binds only fields inside the subtree
\* of that container and leaves every field outside it as it was, whether the
\* selector is the default one or an explicit one.
C17_ContainerScopes ==
    [][\A arg \in InitArgs :
          InitCall(arg) /\ Normalize(arg).container # ""
          => \A i \in NewlyBound : doc[i].within = Normalize(arg).container]_vars


\* the watchers k and m watch the same root for the same selector with the
\* same includeHidden
SameCombination(k, m) ==
    /\ observers[k].target = observers[m].target
    /\ observers[k].selector = observers[m].selector
    /\ observers[k].includeHidden = observers[m].includeHidden

\* C18: the registry holds at most one watcher for each combination of
\* watched root, selector and includeHidden
C18_OneWatcherPerCombination ==
    \A k, m \in 1..Len(observers) : SameCombination(k, m) => k = m


\* the step is the callback of watcher k on its oldest batch
CallbackOf(k) ==
    /\ mutations[k] # <<>>
    /\ lastEvent'.type = "added"
    /\ observers' = observers
    /\ mutations' = [mutations EXCEPT ![k] = Tail(@)]

\* the options a watcher was installed with
OptionsOf(w) ==
    [selector |-> w.selector, includeHidden |-> w.includeHidden, observe |-> TRUE,
     container |-> IF w.target = "body" THEN "" ELSE w.target, explicit |-> w.explicit]

\* the markers after an initial scan with the options of watcher w
ScanMarks(w) ==
    BindAll([doc |-> doc, maskBound |-> maskBound, listeners |-> listeners],
            Nodes(doc, OptionsOf(w)), w.includeHidden).maskBound

\* the nodes of a batch that are in the document
Present(batch) == {batch[j] : j \in {m \in 1..Len(batch) : attached[batch[m]]}}

\* C19: a field inserted under the root of a watcher is bound when its batch
\* is processed if and only if an initial scan with the options of the
\* watcher binds it
C19_LateBindingAsScan ==
    [][\A k \in 1..Len(observers) :
           CallbackOf(k) => \A i \in Present(Head(mutations[k])) : maskBound'[i] <=> ScanMarks(observers[k])[i]]_vars


(***************************************************************************)
(* Claims checked under SpecEntry.  Each check of date validation is       *)
(* stated on its own, on the groups of digits of the value, and the        *)
(* checks are listed in the order the specification gives.                 *)
(***************************************************************************)
\* the groups of digits of the value of the field
Groups == DigitRuns(doc[1].value)

\* the place of the year, the month and the day among three groups, by the
\* leading slot letter of the resolved format
YearFirst == FmtStartsWith(ResolveFormat(RawFormat(doc[1])), "Y")
DayFirst == FmtStartsWith(ResolveFormat(RawFormat(doc[1])), "D")
YearGroup == Groups[IF YearFirst THEN 1 ELSE 3]
MonthGroup == Groups[IF YearFirst \/ DayFirst THEN 2 ELSE 1]
DayGroup == Groups[IF YearFirst THEN 3 ELSE IF DayFirst THEN 1 ELSE 2]

AnyYearDigits == Includes(doc[1].masker, <<"year-digits-any">>)

\* max-days-out: the value parses as a date later than today plus the limit
MaxDaysOutMessage ==
    IF /\ doc[1].maxDaysOut # Empty
       /\ ToDate(doc[1]) # NullDate
       /\ DayNumber(ToDate(doc[1])[1], ToDate(doc[1])[2], ToDate(doc[1])[3])
              > DayNumber(today[1], today[2], today[3]) + ParseInt(doc[1].maxDaysOut)
    THEN IF doc[1].maxDaysErrMsg # "" THEN Text(doc[1].maxDaysErrMsg)
         ELSE <<"Date cannot be more than ", ToString(ParseInt(doc[1].maxDaysOut)), " days in the future.">>
    ELSE Null

GroupCountMessage == IF Len(Groups) # 3 THEN Text("Date is not valid.") ELSE Null

YearLengthMessage ==
    IF Len(Groups) # 3 THEN Null
    ELSE IF AnyYearDigits THEN (IF Len(YearGroup) = 0 THEN Text("Year is required.") ELSE Null)
    ELSE IF Len(YearGroup) # 4 THEN Text("Year must be 4 digits.") ELSE Null

YearRangeMessage ==
    IF Len(Groups) # 3 THEN Null
    ELSE YearPolicy(doc[1].masker, ParseInt(YearGroup), AnyYearDigits, Includes(doc[1].masker, <<"ignore-max">>))

MonthRangeMessage ==
    IF Len(Groups) = 3 /\ ParseInt(MonthGroup) \notin 1..12 THEN Text("Month must be 01-12.") ELSE Null

DayRangeMessage ==
    IF Len(Groups) = 3 /\ ParseInt(DayGroup) \notin 1..31 THEN Text("Day must be 01-31.") ELSE Null

DayOfMonthMessage ==
    IF /\ Len(Groups) = 3
       /\ ParseInt(MonthGroup) \in 1..12
       /\ ParseInt(DayGroup) \in 1..31
       /\ ParseInt(DayGroup) > RuleDaysInMonth(ParseInt(YearGroup), ParseInt(MonthGroup))
    THEN <<"Invalid date: ", ToString(ParseInt(MonthGroup)), "/", ToString(ParseInt(DayGroup)),
           " does not exist in year ", ToString(ParseInt(YearGroup)), ".">>
    ELSE Null

\* the checks in the fixed order
ChecksInOrder ==
    <<MaxDaysOutMessage, GroupCountMessage, YearLengthMessage, YearRangeMessage,
      MonthRangeMessage, DayRangeMessage, DayOfMonthMessage>>

\* the message of the earliest failing check, none when every check passes
EarliestMessage ==
    IF \A k \in 1..7 : ChecksInOrder[k] = Null THEN Null
    ELSE ChecksInOrder[CHOOSE k \in 1..7 : ChecksInOrder[k] # Null /\ \A j \in 1..(k - 1) : ChecksInOrder[j] = Null]

\* the checks are evaluated: the value is neither empty nor a machine-generated
\* YYYY-MM-DD value
Evaluated == "validateDate" \in applied /\ doc[1].value # Empty /\ ~MatchesStrictIso(doc[1].value)

\* C22: date validation returns the message of the earliest failing check in
\* the order max-days-out, group-count, year-length, year-range, month-range,
\* day-range, day-of-month; the max-days-out check is skipped when the value
\* does not parse as a date
C22_FixedOrder == Evaluated => verdict = EarliestMessage

\* a value that fails the year-length, the month-range and the day-range check
\* gets the year-length message
C22_Witness ==
    /\ Evaluated
    /\ YearLengthMessage # Null /\ MonthRangeMessage # Null /\ DayRangeMessage # Null
    /\ verdict = Text("Year must be 4 digits.")


\* the permissive fallback of #toDate (parseDate) accepts the value of the field
FallbackAccepts == doc[1].value # Empty /\ IsoAccepted(Trim(doc[1].value))

\* C23: a value the permissive fallback of parseDate accepts (a leading
\* four-digit year, month 01..12 and day 01..31 separated by hyphens or
\* slashes, followed by anything) is accepted by date validation without an
\* error, whatever the declared format and the year policy
C23_MachineValuesAccepted ==
    "validateDate" \in applied /\ FallbackAccepts => verdict = Null


\* the value of the field starts with a year, a month and a day written
\* YYYY-MM-DD or YYYY/MM/DD, and the day does not exist in that month
LeadsWithMissingDay ==
    /\ doc[1].value # Empty
    /\ MatchesIsoPrefix(Trim(doc[1].value))
    /\ ParseInt(SubSeq(Trim(doc[1].value), 6, 7)) \in 1..12
    /\ ParseInt(SubSeq(Trim(doc[1].value), 9, 10))
           > RuleDaysInMonth(ParseInt(SubSeq(Trim(doc[1].value), 1, 4)), ParseInt(SubSeq(Trim(doc[1].value), 6, 7)))

\* the three groups of the value, in the declared format, are a day that
\* does not exist
GroupsAreMissingDay ==
    /\ Len(Groups) = 3
    /\ ParseInt(MonthGroup) \in 1..12
    /\ ParseInt(DayGroup) > RuleDaysInMonth(ParseInt(YearGroup), ParseInt(MonthGroup))

\* C24: parseDate returns existing calendar dates only, on the fallback path
\* and on the declared-format path: the month is in 1..12 and the day at most
\* the number of days of the month, and no date is returned for a value that
\* names a day that does not exist
C24_CanonicalDates ==
    "toDate" \in applied
    => /\ parsed # NullDate => parsed[2] \in 1..12 /\ parsed[3] \in 1..RuleDaysInMonth(parsed[1], parsed[2])
       /\ LeadsWithMissingDay => parsed = NullDate
       /\ ~MatchesIsoPrefix(Trim(doc[1].value)) /\ GroupsAreMissingDay => parsed = NullDate


(***************************************************************************)
(* Claims checked under SpecTime                                           *)
(***************************************************************************)
\* the segments of the value between its colons
Segments == SplitOn(doc[1].value, ":")

\* the hour component: the first segment
HourText == IF doc[1].value = Empty THEN Empty ELSE Segments[1]

\* the minute component: the value of the Minutes select of a text input that
\* has one, else the second segment
MinuteText ==
    IF doc[1].type # "time" /\ doc[1].hasMinutes THEN doc[1].minutes
    ELSE IF doc[1].value # Empty /\ Len(Segments) >= 2 THEN Segments[2]
    ELSE Empty

\* a component is numeric: it is made of digits, at least one
Numeric(s) == s # Empty /\ \A k \in 1..Len(s) : IsDigit(s[k])

\* the time of day the value states, NullTime when it states none
StatedTime ==
    IF /\ IndexOfChar(doc[1].value, ":") # 0
       /\ Numeric(HourText) /\ Numeric(MinuteText)
       /\ ParseInt(HourText) \in 0..23 /\ ParseInt(MinuteText) \in 0..59
    THEN 60 * ParseInt(HourText) + ParseInt(MinuteText)
    ELSE NullTime

\* C25: parseTimeOfDay (#toTime) returns 60 * hour + minute, a number in
\* 0..1439, for an hour in 0..23 and a minute in 0..59, and fails when the
\* text has no colon, when a component is not numeric or when a component is
\* out of range; the minute of a text input with a Minutes select is read
\* from the select
C25_TimeOfDay ==
    "toTime" \in applied => (parsed = NullTime \/ parsed \in 0..1439) /\ parsed = StatedTime


(***************************************************************************)
(* Claims checked under SpecBlur: the delayed validation runs              *)
(***************************************************************************)
\* the step is a blur or a change of field i
Left(i) == lastEvent'.type \in {"blur", "change"} /\ lastEvent'.target = i

\* the delayed validation run of field i just ended, and no later run of the
\* field is scheduled
LastRunEnded(i) ==
    /\ lastEvent.type = "validate" /\ lastEvent.target = i
    /\ \A k \in 1..Len(timers) : timers[k][2] # i

\* the runs scheduled before the step are still scheduled after it, in order
RunsKept == Len(timers') >= Len(timers) /\ SubSeq(timers', 1, Len(timers)) = timers

\* the oldest run is the one that was executed
OldestRan == timers' = Tail(timers) /\ lastEvent'.target = Head(timers)[2]

\* C26: each blur or change of a bound field schedules exactly one delayed
\* validation run, no run is cancelled, the runs are executed in the order
\* they were scheduled, and when the last scheduled run of a field has ended
\* the container of the field shows the message validate returns for the
\* document at that moment, or is blank and hidden when it returns none
C26_Debounce ==
    /\ [](\A i \in 1..Len(doc) : LastRunEnded(i) => ShowsResult(i, Validate(doc, i)))
    /\ [][/\ \A i \in 1..Len(doc) : Left(i) => timers' = Append(timers, <<"validate", i, Empty>>)
          /\ lastEvent'.type # "validate" => RunsKept
          /\ lastEvent'.type = "validate" => OldestRan]_vars

\* the required or the format check of field p fails
OwnCheckFails(p) == Truthy(CheckRequired(doc[p])) \/ Truthy(CheckFormat(doc[p]))

\* the container of field p is missing, or blank and hidden
Blank(p) ==
    \/ ContainerFor(containers, doc[p].id) = 0
    \/ ContainerShows(p, Text(""), "none")

\* C27: once the delayed validation runs of the blurred members of a pairing
\* group have all ended, no member of the group whose own required or format
\* check still fails is left with a blank, hidden container that showed its
\* error before: clearing the partners removes stale cross-field messages only
C27_PartnersKeepOwnErrors ==
    [][\A i \in 1..Len(doc) :
           (lastEvent'.type = "validate" /\ lastEvent'.target = i /\ timers' = <<>> /\ doc[i].pair # "")
           => \A p \in OtherMembers(i) : OwnCheckFails(p) /\ ~Blank(p) => ~Blank(p)']_vars



(***************************************************************************)
(* Claims checked under SpecWatch: fields that are not visible, and the     *)
(* teardown of the watchers                                                *)
(***************************************************************************)
\* the scan of Masker.init(arg) finds field i
Scanned(arg, i) ==
    \E k \in 1..Len(Nodes(doc, Normalize(arg))) : Nodes(doc, Normalize(arg))[k] = i

\* after the step field i carries listeners, each of them once, and the marker
BoundOnceAfter(i) ==
    /\ maskBound'[i]
    /\ listeners'[i] # <<>>
    /\ \A k \in 1..Len(listeners'[i]) : Attached(listeners'[i], listeners'[i][k]) = 1

\* after the step field i carries no listener and no marker
UnboundAfter(i) == ~maskBound'[i] /\ listeners'[i] = <<>>

\* the step shows field i, which is in the document and was left unbound
MadeVisible(i) == ~visible[i] /\ visible'[i] /\ attached[i] /\ ~maskBound[i]

\* after the step a watcher that takes field i holds a batch with it: its
\* callback, the one thing the page does without a further call of a script,
\* is going to offer the field to #bindElement
BindingPending(i) ==
    \E k \in 1..Len(observers') :
        /\ Offered(observers'[k], doc[i])
        /\ \E b \in 1..Len(mutations'[k]) : \E n \in 1..Len(mutations'[k][b]) : mutations'[k][b][n] = i

\* C28: a scan with includeHidden false leaves an unbound field that is not
\* visible without listeners and without the marker, and the field becomes
\* bound, once, after it is made visible: when a script shows it while a
\* watcher with includeHidden false is registered, the field is bound or its
\* binding is pending.  A scan with includeHidden true binds every field it
\* finds, visible or not, once.  A field that is not in the document is not
\* bound and not marked by any step.
C28_HiddenUntilShown ==
    [][\A i \in 1..Len(doc) :
          /\ \A arg \in InitArgs :
                 InitCall(arg) /\ Scanned(arg, i) =>
                     /\ ~Normalize(arg).includeHidden /\ ~visible[i] /\ ~maskBound[i] => UnboundAfter(i)
                     /\ Normalize(arg).includeHidden => BoundOnceAfter(i)
          /\ MadeVisible(i) /\ (\E k \in 1..Len(observers) :
                              ~observers[k].includeHidden /\ Watches(observers[k], doc[i])
                              /\ Offered(observers[k], doc[i]))
                 => maskBound'[i] \/ BindingPending(i)
          /\ ~attached[i] /\ ~maskBound[i] => UnboundAfter(i)]_vars

\* C28, the scans and the fields out of the document only
C28_ScanSkipsHidden ==
    [][\A i \in 1..Len(doc) :
          /\ \A arg \in InitArgs :
                 InitCall(arg) /\ Scanned(arg, i) =>
                     /\ ~Normalize(arg).includeHidden /\ ~visible[i] /\ ~maskBound[i] => UnboundAfter(i)
                     /\ Normalize(arg).includeHidden => BoundOnceAfter(i)
          /\ ~attached[i] /\ ~maskBound[i] => UnboundAfter(i)]_vars


\* the step takes watchers out of the registry: a call of disconnectObserverFor
Teardown == Len(observers') < Len(observers)

\* the indexes of the watchers of obs that are not registered for root
OthersOf(obs, root) == {k \in 1..Len(obs) : obs[k].target # root}

\* field i lies under root
Under(i, root) == root = "body" \/ doc[i].within = root

\* the step puts field i into the document
Inserted(i) == ~attached[i] /\ attached'[i]

\* no watcher is registered for root
TornDown(root) == \A k \in 1..Len(observers) : observers[k].target # root

\* the step is a call of init that asks for a watcher of root
ObserveAgain(arg, root) ==
    arg.observe /\ WatcherOf(Normalize(arg)).target = root /\ InitCall(arg)

\* C29: disconnectObserverFor(root) takes every watcher registered for that
\* root out of the registry and no other: the watchers of the other roots stay,
\* in their order and with their batches, and the fields, their markers and
\* their listeners stay as they were.  While no watcher is registered for the
\* root, an insertion under it queues a batch for the watchers of an enclosing
\* root only, a callback binds only fields of a batch of its own watcher, and
\* a call of init with observe for that root adds one watcher, with no batch.
C29_Teardown ==
    [][/\ Teardown =>
              /\ \E root \in {"body", "c"} :
                     /\ TornDown(root)'
                     /\ Len(observers') = Cardinality(OthersOf(observers, root))
                     /\ \A k \in 1..Len(observers') :
                            \E m \in OthersOf(observers, root) :
                                /\ observers'[k] = observers[m]
                                /\ mutations'[k] = mutations[m]
                                /\ Cardinality({j \in OthersOf(observers, root) : j < m}) = k - 1
              /\ doc' = doc /\ maskBound' = maskBound /\ listeners' = listeners
              /\ attached' = attached /\ visible' = visible
       /\ \A i \in 1..Len(doc) :
              Inserted(i) =>
                  /\ observers' = observers
                  /\ \A k \in 1..Len(observers) :
                         mutations'[k] # mutations[k] => Under(i, observers[k].target)
       /\ \A k \in 1..Len(observers) :
              CallbackOf(k) => \A i \in NewlyBound : i \in Present(Head(mutations[k]))
       /\ \A arg \in InitArgs : \A root \in {"body", "c"} :
              TornDown(root) /\ ObserveAgain(arg, root) =>
                  /\ observers' = Append(observers, WatcherOf(Normalize(arg)))
                  /\ mutations' = Append(mutations, <<>>)]_vars

\* disconnectObserverFor has just taken the watchers of the container out of
\* the registry; a watcher of the body stays, and the date field is bound
C29_Witness ==
    /\ lastEvent.type = "disconnect"
    /\ TornDown("c")
    /\ \E k \in 1..Len(observers) : observers[k].target = "body"
    /\ maskBound[1] /\ listeners[1] # <<>>

\* C29 as stated: a field inserted under a root right after the teardown of
\* the watchers of that root is handed to no watcher that takes it, so that
\* no watcher binds it
C29_NoBindingAfterTeardown ==
    [][\A i \in 1..Len(doc) : \A root \in {"body", "c"} :
           lastEvent.type = "disconnect" /\ TornDown(root) /\ Under(i, root) /\ Inserted(i)
           => \A k \in 1..Len(observers) :
                  Offered(observers[k], doc[i]) => mutations'[k] = mutations[k]]_vars

(***************************************************************************)
(* Claims checked under SpecTemplate                                       *)
(***************************************************************************)
\* the step is an event of the type on field i
EventOn(type, i) == lastEvent'.type = type /\ lastEvent'.target = i

\* the step is the delayed validation run of field i
RunOf(i) == timers # <<>> /\ Head(timers) = <<"validate", i, Empty>> /\ EventOn("validate", i)

\* the field holds its bare template
HoldsTemplate(i) == doc[i].value = TemplateOf(doc[i])

\* the value of field i after a keydown of key
AfterKey(i, key) == Dispatch(Page, i, "keydown", listeners[i], key).doc[i].value

\* C30, the transitions and the value after a blur: focus on the empty field
\* writes the template, Backspace on the template and blur on the template
\* empty the field (any other key leaves the value to the edit that follows),
\* and after a blur the field does not hold the template
C30_Transitions ==
    /\ [](\A i \in 1..Len(doc) :
              /\ lastEvent.type = "blur" /\ lastEvent.target = i => ~HoldsTemplate(i)
              /\ \A key \in Keys :
                     AfterKey(i, key) = IF HoldsTemplate(i) /\ key = "Backspace" THEN Empty ELSE doc[i].value)
    /\ [][\A i \in 1..Len(doc) :
              /\ EventOn("focus", i) /\ doc[i].value = Empty => HoldsTemplate(i)'
              /\ EventOn("keydown", i) => \E key \in Keys : doc'[i].value = AfterKey(i, key)
              /\ EventOn("blur", i) /\ HoldsTemplate(i) => doc'[i].value = Empty]_vars

\* C30: the placeholder state machine of a templated mask bound without
\* 'visible'.  Focus on the empty field writes the template; Backspace on the
\* template and blur on the template empty the field; so, whatever the
\* sequence of focus, input, keydown and blur events, the field does not hold
\* the bare template after a blur, and a delayed validation run does not find
\* the template in the field it validates.
C30_PlaceholderMachine ==
    /\ C30_Transitions
    /\ [][\A i \in 1..Len(doc) : RunOf(i) => ~HoldsTemplate(i)]_vars


(***************************************************************************)
(* Claims checked under SpecVisible                                        *)
(***************************************************************************)
\* validate has just been applied to the bound field, which holds its bare template
ValidatedOnTemplate ==
    /\ lastEvent.type = "validated" /\ lastEvent.target = 1
    /\ maskBound[1] /\ FlaggedRequired(1)
    /\ HoldsTemplate(1)

\* C31: a required phone or date field bound with 'visible' whose value is
\* exactly the blank template of its mask counts as empty: validate returns
\* the required message of the field.
C31_TemplateCountsAsEmpty == ValidatedOnTemplate => verdict = RequiredMessage(1)


(***************************************************************************)
(* Claims checked under SpecNumber                                         *)
(***************************************************************************)
\* the digits of a text, in their order
DigitsOf(text) == SelectSeq(text, LAMBDA c : c \in {"0", "1", "2", "3", "4", "5", "6", "7", "8", "9"})

\* the digits of a text cut to the declared maximum length of field i, whole
\* when none is declared
CutToMaxLength(i, text) ==
    IF doc[i].maxLength < 0 \/ Len(DigitsOf(text)) <= doc[i].maxLength THEN DigitsOf(text)
    ELSE SubSeq(DigitsOf(text), 1, doc[i].maxLength)

\* the step is the input event of the number field on text
TypedNumber(text) ==
    /\ lastEvent'.type = "input"
    /\ doc' = NumberTyped(text).doc
    /\ timers' = NumberTyped(text).timers

\* C32: after an input event on a number field the value is the digits of the
\* typed text in their order, cut to the declared maximum length when one is
\* declared and not shortened when none is declared (maxLength is -1).
C32_DigitsCutToMaxLength ==
    [][\A text \in NumberTexts : TypedNumber(text) => doc'[1].value = CutToMaxLength(1, text)]_vars

\* C32 for the fields that declare a maximum length
C32_DeclaredMaxLength ==
    [][\A text \in NumberTexts :
           TypedNumber(text) /\ doc[1].maxLength >= 0 => doc'[1].value = CutToMaxLength(1, text)]_vars

\* the value of field i is within the declared range
WithinDeclared(i) ==
    /\ doc[i].min # Empty => ParseInt(doc[i].value) >= ParseInt(doc[i].min)
    /\ doc[i].max # Empty => ParseInt(doc[i].value) <= ParseInt(doc[i].max)

\* the step is a clamp timer of field i firing
ClampOf(i) == timers # <<>> /\ Head(timers)[1] = "clamp" /\ Head(timers)[2] = i /\ lastEvent'.type = "clamp"

\* C33, the end: once every clamp timer has fired the value is empty or within
\* the declared range
C33_InRangeAtRest ==
    \A i \in 1..Len(doc) : timers = <<>> => doc[i].value = Empty \/ WithinDeclared(i)

\* C33: a clamp timer changes the value only if the value is outside the
\* declared range when the timer fires: a value the user brought into the
\* range before is left as it is; and once every timer has fired the value is
\* empty or within the range.
C33_ClampOnlyOutOfRange ==
    /\ [](C33_InRangeAtRest)
    /\ [][\A i \in 1..Len(doc) :
              ClampOf(i) /\ doc[i].value # Empty /\ WithinDeclared(i) => doc'[i].value = doc[i].value]_vars


(***************************************************************************)
(* Claims checked under SpecApply                                          *)
(***************************************************************************)
\* the step runs the applier of the field on its own output
AppliedAgain == applied = {"input"} /\ applied' = {"again"}

\* the template of the field has a digit among its literals
DigitLiteral(el) ==
    /\ HasToken(el.masker, "phone")
    /\ \E k \in 1..Len(PhoneFormat(el)) : PhoneFormat(el)[k] \in {"1", "2", "3", "4", "5", "6", "7", "8", "9"}

\* C34: each content-transforming applier (digit template, date, military
\* date, email, special-character filter) is idempotent: applied to its own
\* output it returns that output unchanged, for every input and every
\* template, the templates the caller writes out included.
C34_Idempotent == [][AppliedAgain => doc'[1].value = doc[1].value]_vars

\* C34 for the templates whose literals are not digits
C34_IdempotentPlainLiterals ==
    [][AppliedAgain /\ ~DigitLiteral(doc[1]) => doc'[1].value = doc[1].value]_vars


(***************************************************************************)
(* Claims checked under SpecAgree                                          *)
(***************************************************************************)
\* the binder attached the masking listeners of the type to the field
BoundAs(type) ==
    IF type = "date" THEN Attached(listeners[1], <<"input", "date">>) + Attached(listeners[1], <<"input", "mildate">>) > 0
    ELSE IF type = "email" THEN Attached(listeners[1], <<"input", "email">>) > 0
    ELSE Attached(listeners[1], <<"blur", "time">>) > 0

\* validate has just been applied to the bound field, which holds content
ValidatedContent ==
    /\ lastEvent.type = "validated" /\ lastEvent.target = 1
    /\ maskBound[1]
    /\ doc[1].value # Empty /\ doc[1].value # doc[1].placeholder

\* C35: the binder and the validator agree on the mask type of a field: on
\* the content of a field that carries the date (email, time) listeners
\* validate returns what date (email, time) validation returns, wherever the
\* type stands among the tokens of the declaration, and on a field of any
\* other type it returns no format error.
C35_BinderValidatorAgree ==
    ValidatedContent =>
        /\ BoundAs("date") => verdict = ValidateDate(doc[1])
        /\ BoundAs("email") => verdict = ValidateEmail(doc[1])
        /\ BoundAs("time") => verdict = ValidateTime(doc[1])
        /\ ~BoundAs("date") /\ ~BoundAs("email") /\ ~BoundAs("time") => verdict = Null

\* C35 for the declarations that name one type, as their first token
C35_TypeTokenFirst ==
    ValidatedContent /\ Cardinality({k \in 1..Len(doc[1].masker) :
                                        doc[1].masker[k] \in {"date", "email", "time", "phone", "number"}}) <= 1
                     /\ doc[1].masker[1] \in {"date", "email", "time", "phone", "number", "special"}
                     /\ doc[1].masker # <<"special", "email">>
    => /\ BoundAs("date") => verdict = ValidateDate(doc[1])
       /\ BoundAs("email") => verdict = ValidateEmail(doc[1])
       /\ BoundAs("time") => verdict = ValidateTime(doc[1])
       /\ ~BoundAs("date") /\ ~BoundAs("email") /\ ~BoundAs("time") => verdict = Null


(***************************************************************************)
(* Claims checked under SpecAnchor.  A node is <<field, 0>> for the field  *)
(* and <<field, 1>> for the Minutes select that follows it.                *)
(***************************************************************************)
\* the fields with the id the override of field i names
Referenced(i) == {j \in 1..Len(doc) : doc[i].errorAnchor # "" /\ doc[j].id = doc[i].errorAnchor}

\* the end-role members of the group of field i, and the time members among them
EndMembers(i) ==
    {j \in 1..Len(doc) : doc[i].pair # "" /\ doc[j].pair = doc[i].pair /\ doc[j].hasMasker
                         /\ \E k \in 1..Len(doc[j].masker) : doc[j].masker[k] = "end"}
EndTimes(i) == {j \in EndMembers(i) : \E k \in 1..Len(doc[j].masker) : doc[j].masker[k] = "time"}

\* the first field of a set, in document order
Earliest(S) == CHOOSE j \in S : \A m \in S : j <= m

\* the anchor of field i as the resolution rule states it
StatedAnchor(i) ==
    IF doc[i].errorAnchor = "self" THEN <<i, 0>>
    ELSE IF Referenced(i) # {} THEN <<Earliest(Referenced(i)), 0>>
    ELSE IF EndTimes(i) # {}
         THEN <<Earliest(EndTimes(i)), IF doc[Earliest(EndTimes(i))].hasMinutes THEN 1 ELSE 0>>
    ELSE IF EndMembers(i) # {} THEN <<Earliest(EndMembers(i)), 0>>
    ELSE <<i, 0>>

\* _findErrorAnchor has just been called on field i
AnchorFound(i) == lastEvent.type = "findErrorAnchor" /\ lastEvent.target = i

\* C36: _findErrorAnchor returns the field itself for the override 'self' and
\* the referenced node when it exists; otherwise, for a field with a pairing
\* key whose group has an end-role member, the Minutes select of the end
\* time member if there is one, else that time member, else the end-role
\* field; in every other case the field itself.  The result is a node of the
\* page, never empty.
C36_ResolveAnchor ==
    \A i \in 1..Len(doc) :
        AnchorFound(i) =>
            /\ parsed = StatedAnchor(i)
            /\ parsed # <<>> /\ parsed[1] \in 1..Len(doc)

\* the anchor of a field of the group that declares no usable override was
\* resolved to the Minutes select of the end time, which is not the first
\* end-role member of the page
C36_Witness ==
    /\ AnchorFound(subject)
    /\ doc[subject].errorAnchor = "zz" /\ doc[subject].pair = "p"
    /\ parsed[2] = 1
    /\ Earliest(EndMembers(subject)) # parsed[1]


\* displayError or clearError has just been called on field i
HelperCalled(i) == lastEvent.type \in {"displayError", "clearError"} /\ lastEvent.target = i

\* the step is a call of displayError or clearError on field i
HelperCallOn(i) == lastEvent'.type \in {"displayError", "clearError"} /\ lastEvent'.target = i

\* C37: a field without id cannot receive a container: displayError and
\* clearError on it create no container and leave the text and the
\* visibility of every existing container as they were (the call returns,
\* it does not raise).
C37_NoIdNoContainer ==
    [][\A i \in 1..Len(doc) : HelperCallOn(i) /\ doc[i].id = "" => containers' = containers]_vars

\* a helper was called on the subject, which has no id, while "x" showed an error
C37_Witness ==
    /\ HelperCalled(subject) /\ doc[subject].id = ""
    /\ \E k \in 1..Len(containers) : containers[k].errorFor = "x" /\ containers[k].display = "inline"


\* the fields that have a container
WithContainer(cs) == {i \in 1..Len(doc) : doc[i].id # "" /\ \E k \in 1..Len(cs) : cs[k].errorFor = doc[i].id}

\* C38, the display side: displayError on a field with an id that has no
\* container creates one, for that field only, and every later call reuses it
C38_CreatedOnDisplay ==
    [][\A i \in 1..Len(doc) :
           lastEvent'.type = "displayError" /\ lastEvent'.target = i /\ doc[i].id # ""
           => /\ WithContainer(containers') = WithContainer(containers) \cup {i}
              /\ Len(containers') = Len(containers) + (IF i \in WithContainer(containers) THEN 0 ELSE 1)]_vars

\* C38: the error container of a field comes into existence only when an
\* error message is displayed for that field for the first time: a step that
\* is not the display of a message for a field creates no container for it;
\* clearing or validating a field that never had an error creates none.
C38_LazyContainers ==
    /\ C38_CreatedOnDisplay
    /\ [][\A i \in WithContainer(containers') \ WithContainer(containers) :
              \/ lastEvent'.type = "displayError" /\ lastEvent'.target = i
              \/ /\ lastEvent'.type = "validate" /\ lastEvent'.target = i
                 /\ \E k \in 1..Len(containers') :
                        containers'[k].errorFor = doc[i].id /\ containers'[k].display = "inline"]_vars

====
